---- MODULE Spec2Model ----
(***************************************************************************)
(* The asynchronous comic generation job pipeline of toonana.              *)
(*                                                                         *)
(* The command surface (create_comic_job, get_comic_job_status,            *)
(* cancel_job) is the one of src-tauri/src/lib.rs; the job task is the     *)
(* coroutine of src-tauri/src/comic.rs with the provider chain of          *)
(* src-tauri/src/gemini.rs and the text stream of src-tauri/src/ollama.rs. *)
(*                                                                         *)
(* A job task is a tokio task.  It runs in synchronous segments between    *)
(* its await points: pc[j] is either an await point (the task is           *)
(* suspended there, AwaitPoints) or a position inside a segment (the task  *)
(* is being polled by a worker thread).  JoinHandle::abort only marks the  *)
(* task: the mark takes effect when the task is suspended, so every        *)
(* resumption from an await point requires the mark to be absent, and no   *)
(* step inside a segment looks at it.                                      *)
(***************************************************************************)
EXTENDS Naturals, Sequences, FiniteSets, TLC

\* ------------------------------------------------------------- bounds
\* Bytes that follow a signature in the byte sequences under study.
MaxPad == 1
\* Levels of arrays and objects wrapped around the parts of a fragment.
MaxDepth == 2
\* Newline-terminated lines in the body of one image stream under study.
MaxBodyLines == 3
\* Text chunks (NDJSON lines with a non-empty response) one text stream delivers.
MaxChunks == 2
\* 800 ms heartbeat periods that elapse before the remote renderer answers.
MaxTicks == 3
\* NDJSON lines one image stream delivers.
MaxLines == 2
\* The sleeps that elapse after the heartbeat reached its cap.
MaxTicksPastCap == 2
\* Characters of a text body that is delivered in transport chunks.
MaxBodyChars == 3

\* The job ids create_comic_job hands out, and an id it never handed out.
JobIds == {1}
UnknownId == 0
CommandIds == JobIds \cup {UnknownId}

\* --------------------------------------------------- program constants
\* comic.rs:262-263: the heartbeat ramp.
TickCap == 98
TickStep == 2
\* comic.rs:269, gemini.rs:176.
HeartbeatTotal == 100
StreamTotal == 100
\* gemini.rs:273-274: the per-line nudge and its cap.
ProgressCap == 98
ProgressStep == 2
\* gemini.rs:286 and gemini.rs:309.
FinalizeProgress == 99
DoneProgress == 100
\* comic.rs:290: only multiples of 5 are published.
PublishEvery == 5
\* gemini.rs:201, gemini.rs:392, gemini.rs:644: diagnostic sample lengths (bytes).
StreamSampleLen == 600
TextSampleLen == 200
RetrySampleLen == 800

\* ------------------------------------------------------------- values
None == <<>>
Some(x) == <<x>>

Min(a, b) == IF a < b THEN a ELSE b

\* ComicStage (comic.rs:20-29) in the order of the enum.
Stages == <<"Queued", "Parsing", "Storyboarding", "Prompting", "Rendering", "Saving", "Done">>

\* The position of a stage in the pipeline; Failed is outside the order.
StageRank(s) ==
    CASE s = "Queued" -> 0
      [] s = "Parsing" -> 1
      [] s = "Storyboarding" -> 2
      [] s = "Prompting" -> 3
      [] s = "Rendering" -> 4
      [] s = "Saving" -> 5
      [] s = "Done" -> 6
      [] OTHER -> 7

\* The entry the job was submitted for (lib.rs:786-799).
entry_id(j) == <<"entry", j>>

\* The style the job was submitted with (lib.rs:786-799).
style(j) == <<"style", j>>

\* ComicJobStatus (comic.rs:32-40) without updated_at, which no step reads.
\* entry_id and style are the clones of the task's arguments; completed/total
\* are those of Rendering, error that of Failed (a sequence of message parts);
\* both are empty otherwise.
ComicJobStatus(j, stage, completed, total, error, path, text) ==
    [job_id |-> j, entry_id |-> entry_id(j), style |-> style(j),
     stage |-> stage, completed |-> completed, total |-> total,
     error |-> error, result_image_path |-> path, storyboard_text |-> text]

\* What a command returned: Ok or the error string.  The status a successful
\* get returns is the clone of the registry entry at that moment, StatusOf(id).
Reply(cmd, id, result) == [cmd |-> cmd, id |-> id, result |-> result]

\* An insert that keeps the stored text when the new value carries none.
MapInsertMerging(m, k, v) ==
    [x \in (DOMAIN m) \cup {k} |->
        IF x # k THEN m[x]
        ELSE IF k \in DOMAIN m /\ v.storyboard_text = None
             THEN [v EXCEPT !.storyboard_text = m[k].storyboard_text]
             ELSE v]

\* DashMap::insert: unconditional overwrite of one key.
MapInsert(m, k, v) == [x \in (DOMAIN m) \cup {k} |-> IF x = k THEN v ELSE m[x]]

VARIABLES
    jobs,            \* AppState.jobs: the ids whose JoinHandle is in the table
    comic_status,    \* AppState.comic_status: job id -> ComicJobStatus
    settings_file,   \* settings.json as load_settings_from_dir reads it
    sub,             \* sub[j]: position of the create_comic_job command for id j
    pc,              \* pc[j]: position of job j's task
    aborted,         \* aborted[j]: JoinHandle::abort was called on the task
    settings,        \* settings[j]: the Settings the task loaded
    storyboard_text, \* the task's accumulator
    tick_completed,  \* comic.rs:252
    last_tick,       \* comic.rs:288 / comic.rs:308
    progress,        \* gemini.rs:175
    latest_b64,      \* gemini.rs:171
    latest_http_uri, \* gemini.rs:172
    last_json_debug, \* gemini.rs:180, is_some()
    err,             \* the error a failing call returned, until it is published
    nano_e,          \* comic.rs:285: the remote renderer's error during the fallback
    nb_res,          \* comic.rs:250: the chain's result once it has one
    calls,           \* calls[j]: the provider requests made, with their outcomes
    reply,           \* what the last command returned to the UI
    upserted,        \* upserted[j]: the value passed to the last insert under key j
    files,           \* the result files that exist on disk with their image bytes
    fx,              \* a call under study of a function or of the wait loop
    sp               \* a call of a streaming producer on a given response

vars == <<jobs, comic_status, settings_file, sub, pc, aborted, settings,
          storyboard_text, tick_completed, last_tick, progress, latest_b64,
          latest_http_uri, last_json_debug, err, nano_e, nb_res, calls, reply,
          upserted, files, fx, sp>>

\* The Status Registry with the record of what was passed to it.
registry == <<comic_status, upserted>>

\* The environment: the settings file, the disk, the calls under study.  Only
\* the file write of a task changes it (the disk).
envVars == <<settings_file, files, fx, sp>>

taskVars == <<settings, storyboard_text, tick_completed, last_tick, progress,
              latest_b64, latest_http_uri, last_json_debug, err, nano_e, nb_res,
              calls>>

\* The points where the task is suspended (an .await that returned Pending, or
\* the task not yet polled for the first time).
AwaitPoints == {"spawned", "sleep_parse", "entry_load", "text_send", "text_stream",
                "mkdir", "nano_wait", "img_send", "img_stream", "uri_fetch",
                "once_send", "once_uri_fetch", "retry_send", "retry_uri_fetch",
                "file_write", "sleep_save"}

\* Settings (settings.rs:7-15), the two fields the chain branches on.
SettingsValues == [nano_banana_base_url : BOOLEAN, gemini_api_key : BOOLEAN]

\* The state of the program after tauri_startup, before any command, with
\* ids as the job ids the submissions will draw.
InitWith(ids) ==
    /\ jobs = {}
    /\ comic_status = << >>
    /\ sub = [j \in ids |-> "free"]
    /\ pc = [j \in ids |-> "none"]
    /\ aborted = [j \in ids |-> FALSE]
    /\ settings = [j \in ids |-> None]
    /\ storyboard_text = [j \in ids |-> << >>]
    /\ tick_completed = [j \in ids |-> 0]
    /\ last_tick = [j \in ids |-> 0]
    /\ progress = [j \in ids |-> 0]
    /\ latest_b64 = [j \in ids |-> None]
    /\ latest_http_uri = [j \in ids |-> None]
    /\ last_json_debug = [j \in ids |-> FALSE]
    /\ err = [j \in ids |-> << >>]
    /\ nano_e = [j \in ids |-> << >>]
    /\ nb_res = [j \in ids |-> None]
    /\ calls = [j \in ids |-> << >>]
    /\ reply = Reply("none", UnknownId, "none")
    /\ upserted = [j \in ids |-> None]
    /\ files = {}

InitProgram == InitWith(JobIds)

\* No call of the image extractor or of the streaming producer is under study.
Idle == [at |-> "idle"]

Init ==
    /\ InitProgram
    /\ settings_file \in SettingsValues
    /\ fx = Idle
    /\ sp = Idle

\* status_map.insert(jid, status): the registry entry of j is replaced by st.
Write(j, st) ==
    /\ comic_status' = MapInsert(comic_status, j, st)
    /\ upserted' = [upserted EXCEPT ![j] = Some(st)]

Goto(j, p) == pc' = [pc EXCEPT ![j] = p]

\* =================================================== the command surface

\* Uuid::new_v4 (lib.rs:790): an id no earlier submission used.
FreshId(j) == sub[j] = "free" /\ \A k \in DOMAIN sub : k < j => sub[k] # "free"

\* A submission that draws the id without storing a record.
SubmitWithoutRecord(j) ==
    /\ FreshId(j)
    /\ sub' = [sub EXCEPT ![j] = "queued"]
    /\ UNCHANGED <<jobs, registry, envVars, pc, aborted, taskVars, reply>>

\* lib.rs:790-799: the id is drawn and the Queued record stored.
SubmitInsertQueued(j) ==
    /\ FreshId(j)
    /\ Write(j, ComicJobStatus(j, "Queued", 0, 0, << >>, None, None))
    /\ sub' = [sub EXCEPT ![j] = "queued"]
    /\ UNCHANGED <<jobs, envVars, pc, aborted, taskVars, reply>>

\* lib.rs:807 (comic.rs:113): tokio::spawn; the task is scheduled, not yet polled.
SubmitSpawn(j) ==
    /\ sub[j] = "queued"
    /\ pc' = [pc EXCEPT ![j] = "spawned"]
    /\ sub' = [sub EXCEPT ![j] = "spawned"]
    /\ UNCHANGED <<jobs, registry, envVars, aborted, taskVars, reply>>

\* lib.rs:986-987: the handle is registered and the id returned.
SubmitReturn(j) ==
    /\ sub[j] = "spawned"
    /\ jobs' = jobs \cup {j}
    /\ sub' = [sub EXCEPT ![j] = "returned"]
    /\ reply' = Reply("create_comic_job", j, "Ok")
    /\ UNCHANGED <<registry, envVars, pc, aborted, taskVars>>

\* lib.rs:992-995: comic_status.get(&job_id).map(|v| v.clone()).
StatusOf(j) == IF j \in DOMAIN comic_status THEN Some(comic_status[j]) ELSE None

\* lib.rs:991-997.
get_comic_job_status(j) ==
    /\ reply' = Reply("get_comic_job_status", j,
                       IF StatusOf(j) # None THEN "Ok" ELSE "job not found")
    /\ UNCHANGED <<jobs, registry, envVars, sub, pc, aborted, taskVars>>

\* A cancel that reports an unknown id as an error.
cancel_job_strict(j) ==
    /\ IF j \in jobs
       THEN /\ jobs' = jobs \ {j}
            /\ aborted' = [aborted EXCEPT ![j] = TRUE]
       ELSE UNCHANGED <<jobs, aborted>>
    /\ reply' = Reply("cancel_job", j, IF j \in jobs THEN "Ok" ELSE "job not found")
    /\ UNCHANGED <<registry, envVars, sub, pc, taskVars>>

\* A cancel that aborts every task of the handle table.
cancel_every_job(j) ==
    /\ IF j \in jobs
       THEN /\ jobs' = {}
            /\ aborted' = [k \in DOMAIN aborted |-> aborted[k] \/ k \in jobs]
       ELSE UNCHANGED <<jobs, aborted>>
    /\ reply' = Reply("cancel_job", j, "Ok")
    /\ UNCHANGED <<registry, envVars, sub, pc, taskVars>>

\* A cancel that aborts the task and leaves its handle in the table.
cancel_job_keeping_handle(j) ==
    /\ IF j \in jobs
       THEN aborted' = [aborted EXCEPT ![j] = TRUE]
       ELSE UNCHANGED aborted
    /\ UNCHANGED jobs
    /\ reply' = Reply("cancel_job", j, "Ok")
    /\ UNCHANGED <<registry, envVars, sub, pc, taskVars>>

\* lib.rs:1000-1005.
cancel_job(j) ==
    /\ IF j \in jobs
       THEN /\ jobs' = jobs \ {j}
            /\ aborted' = [aborted EXCEPT ![j] = TRUE]
       ELSE UNCHANGED <<jobs, aborted>>
    /\ reply' = Reply("cancel_job", j, "Ok")
    /\ UNCHANGED <<registry, envVars, sub, pc, taskVars>>

\* lib.rs:620-624: the settings are written to settings.json, or the write
\* fails and the command returns its error.
update_settings(s) ==
    /\ \/ /\ settings_file' = s
          /\ reply' = Reply("update_settings", UnknownId, "Ok")
       \/ /\ UNCHANGED settings_file
          /\ reply' = Reply("update_settings", UnknownId, "write settings")
    /\ UNCHANGED <<jobs, registry, files, fx, sp, sub, pc, aborted, taskVars>>

\* ========================================================== the job task
\* Every action below moves one task only; f[j] is the only entry that changes.

\* A runtime that polls a task again whether or not it was marked.
ResumesMarked(j, p) == pc[j] = p

\* The awaited future completed and the runtime polls the task again: possible
\* only while the task has not been marked by abort (tokio drops a marked task
\* instead of polling it).
Resumes(j, p) == pc[j] = p /\ ~aborted[j]

cmdVars == <<jobs, envVars, sub, aborted, reply>>

\* comic.rs:113-115: first poll of the spawned task.
PollFirst(j) ==
    /\ Resumes(j, "spawned")
    /\ Goto(j, "w_parsing")
    /\ UNCHANGED <<registry, cmdVars, taskVars>>

\* comic.rs:116-125.
WriteParsing(j) ==
    /\ pc[j] = "w_parsing"
    /\ Write(j, ComicJobStatus(j, "Parsing", 0, 0, << >>, None, None))
    /\ Goto(j, "sleep_parse")
    /\ UNCHANGED <<cmdVars, taskVars>>

\* comic.rs:125: the 150 ms sleep elapsed.
ParseSleepDone(j) ==
    /\ Resumes(j, "sleep_parse")
    /\ Goto(j, "w_storyboarding")
    /\ UNCHANGED <<registry, cmdVars, taskVars>>

\* comic.rs:129-140.
WriteStoryboarding(j) ==
    /\ pc[j] = "w_storyboarding"
    /\ Write(j, ComicJobStatus(j, "Storyboarding", 0, 0, << >>, None, None))
    /\ Goto(j, "entry_load")
    /\ UNCHANGED <<cmdVars, taskVars>>

\* database.rs:285-301: the errors of get_entry_body (no such row; the body is
\* not UTF-8).
EntryErrors == {"db", "utf8"}

\* comic.rs:140-154: get_entry_body returned.
EntryLoaded(j) ==
    /\ Resumes(j, "entry_load")
    /\ \/ /\ Goto(j, "w_prompting")
          /\ UNCHANGED err
       \/ \E e \in EntryErrors :
            /\ err' = [err EXCEPT ![j] = <<e>>]
            /\ Goto(j, "w_fail_entry")
    /\ UNCHANGED <<registry, cmdVars, settings, storyboard_text,
                   tick_completed, last_tick, progress, latest_b64,
                   latest_http_uri, last_json_debug, nano_e, nb_res, calls>>

\* A lookup failure that is published without ending the task.
WriteFailEntryAndGoOn(j) ==
    /\ pc[j] = "w_fail_entry"
    /\ Write(j, ComicJobStatus(j, "Failed", 0, 0, <<"load entry failed">> \o err[j],
                               None, None))
    /\ Goto(j, "w_prompting")
    /\ err' = [err EXCEPT ![j] = << >>]
    /\ UNCHANGED <<cmdVars, settings, storyboard_text, tick_completed, last_tick,
                   progress, latest_b64, latest_http_uri, last_json_debug, nano_e,
                   nb_res, calls>>

\* comic.rs:141-153: Failed is published and the task returns.
WriteFailEntry(j) ==
    /\ pc[j] = "w_fail_entry"
    /\ Write(j, ComicJobStatus(j, "Failed", 0, 0, <<"load entry failed">> \o err[j],
                               None, None))
    /\ Goto(j, "finished")
    /\ err' = [err EXCEPT ![j] = << >>]
    /\ UNCHANGED <<cmdVars, settings, storyboard_text, tick_completed, last_tick,
                   progress, latest_b64, latest_http_uri, last_json_debug, nano_e,
                   nb_res, calls>>

\* comic.rs:158-207: Prompting is published, the settings are loaded and the
\* text request is sent.
WritePrompting(j) ==
    /\ pc[j] = "w_prompting"
    /\ Write(j, ComicJobStatus(j, "Prompting", 0, 0, << >>, None, None))
    /\ settings' = [settings EXCEPT ![j] = Some(settings_file)]
    /\ Goto(j, "text_send")
    /\ UNCHANGED <<cmdVars, storyboard_text, tick_completed,
                   last_tick, progress, latest_b64, latest_http_uri,
                   last_json_debug, err, nano_e, nb_res, calls>>

\* ollama.rs:159-172: the errors before the stream is read (transport, 404/502,
\* another non-success status).
TextSendErrors == {"ollama request failed",
                   "Ollama server not reachable. Is it running on port 11434?",
                   "ollama error: HTTP"}

\* ollama.rs:159-176: the text request was answered.
TextSendDone(j) ==
    /\ Resumes(j, "text_send")
    /\ \/ /\ Goto(j, "text_stream")
          /\ UNCHANGED err
       \/ \E e \in TextSendErrors :
            /\ err' = [err EXCEPT ![j] = <<e>>]
            /\ Goto(j, "w_fail_text")
    /\ UNCHANGED <<registry, cmdVars, settings, storyboard_text,
                   tick_completed, last_tick, progress, latest_b64,
                   latest_http_uri, last_json_debug, nano_e, nb_res, calls>>

\* The `response` fragment of the n-th line that carries one.
ChunkText(n) == n

\* ollama.rs:178-219: stream.next() returned: a line with a response fragment
\* (on_chunk is entered: comic.rs:208), a transport error, or the end of the
\* stream, with or without a last unterminated line.
TextStreamNext(j) ==
    /\ Resumes(j, "text_stream")
    /\ \/ /\ Len(storyboard_text[j]) < MaxChunks
          /\ storyboard_text' = [storyboard_text EXCEPT ![j] =
                                    Append(@, ChunkText(Len(@) + 1))]
          /\ Goto(j, "on_chunk")
          /\ UNCHANGED err
       \/ /\ err' = [err EXCEPT ![j] = <<"stream error">>]
          /\ Goto(j, "w_fail_text")
          /\ UNCHANGED storyboard_text
       \/ /\ Len(storyboard_text[j]) < MaxChunks
          /\ storyboard_text' = [storyboard_text EXCEPT ![j] =
                                    Append(@, ChunkText(Len(@) + 1))]
          /\ Goto(j, "on_chunk_final")
          /\ UNCHANGED err
       \/ /\ Goto(j, "w_rendering")
          /\ UNCHANGED <<storyboard_text, err>>
    /\ UNCHANGED <<registry, cmdVars, settings, tick_completed,
                   last_tick, progress, latest_b64, latest_http_uri,
                   last_json_debug, nano_e, nb_res, calls>>

\* comic.rs:207-219: the chunk callback publishes the partial text.
OnChunk(j) ==
    /\ pc[j] \in {"on_chunk", "on_chunk_final"}
    /\ Write(j, ComicJobStatus(j, "Prompting", 0, 0, << >>, None,
                               Some(storyboard_text[j])))
    /\ Goto(j, IF pc[j] = "on_chunk" THEN "text_stream" ELSE "w_rendering")
    /\ UNCHANGED <<cmdVars, taskVars>>

\* A failure of the text stage that is published and followed by a new request.
WriteFailTextAndRetry(j) ==
    /\ pc[j] = "w_fail_text"
    /\ Write(j, ComicJobStatus(j, "Failed", 0, 0,
                               <<"ollama prompting failed">> \o err[j], None, None))
    /\ Goto(j, "text_send")
    /\ err' = [err EXCEPT ![j] = << >>]
    /\ UNCHANGED <<cmdVars, settings, storyboard_text, tick_completed, last_tick,
                   progress, latest_b64, latest_http_uri, last_json_debug, nano_e,
                   nb_res, calls>>

\* comic.rs:221-233.
WriteFailText(j) ==
    /\ pc[j] = "w_fail_text"
    /\ Write(j, ComicJobStatus(j, "Failed", 0, 0,
                               <<"ollama prompting failed">> \o err[j], None, None))
    /\ Goto(j, "finished")
    /\ err' = [err EXCEPT ![j] = << >>]
    /\ UNCHANGED <<cmdVars, settings, storyboard_text, tick_completed, last_tick,
                   progress, latest_b64, latest_http_uri, last_json_debug, nano_e,
                   nb_res, calls>>

\* comic.rs:237-248: the first Rendering write, then create_dir_all.
WriteRendering(j) ==
    /\ pc[j] = "w_rendering"
    /\ Write(j, ComicJobStatus(j, "Rendering", 1, 1, << >>, None,
                               Some(storyboard_text[j])))
    /\ Goto(j, "mkdir")
    /\ UNCHANGED <<cmdVars, taskVars>>

\* ------------------------------------------------ payloads and diagnostics

\* Characters of the payload strings the providers return.
B64Alphabet == {"Q", "U", "J", "D"}

\* decode_base64_png (comic.rs:49-56): what follows the first comma, if any,
\* is decoded with the padded standard alphabet.
AfterFirstComma(s) ==
    IF \E i \in 1..Len(s) : s[i] = ","
    THEN LET i == CHOOSE k \in 1..Len(s) :
                    s[k] = "," /\ \A m \in 1..(k - 1) : s[m] # ","
         IN SubSeq(s, i + 1, Len(s))
    ELSE s

IsStandardB64(s) == Len(s) % 4 = 0 /\ \A i \in 1..Len(s) : s[i] \in B64Alphabet

\* A decoder that accepts every payload.
decode_lenient(s) == "Ok"

decode_base64_png(s) == IF IsStandardB64(AfterFirstComma(s)) THEN "Ok" ELSE "Err"

\* Payload strings a provider can put in a response: a data URI of valid
\* base64 and a string that is not base64.
PayloadData == {<<"data:image/png;base64", ",", "Q", "U", "J", "D">>,
                <<"Q", "U", "!">>}

\* B64.encode of fetched bytes (gemini.rs:300, 574, 639).
FetchedB64 == <<"Q", "U", "J", "D">>

Payload(from, data) == [from |-> from, data |-> data]

\* A serialized JSON text as runs of characters: n characters of w bytes each.
ByteLen(s) == IF s = << >> THEN 0
              ELSE LET F[i \in 0..Len(s)] ==
                         IF i = 0 THEN 0 ELSE F[i - 1] + s[i].n * s[i].w
                   IN F[Len(s)]

\* str::is_char_boundary(k) on such a text.
RECURSIVE IsCharBoundary(_, _)
IsCharBoundary(s, k) ==
    IF k = 0 THEN TRUE
    ELSE IF s = << >> THEN FALSE
    ELSE LET bytes == Head(s).n * Head(s).w
         IN IF k >= bytes THEN IsCharBoundary(Tail(s), k - bytes)
            ELSE k % Head(s).w = 0

\* `if s.len() > limit { format!("{}...", &s[..limit]) } else { s }`
\* (gemini.rs:201, 392, 644): slicing a str off a char boundary panics.
SampleOutcome(s, limit) ==
    IF ByteLen(s) > limit
    THEN IF IsCharBoundary(s, limit) THEN "truncated" ELSE "panic"
    ELSE "whole"

\* Texts a response can carry, around a sample length: short, long ASCII, long
\* with a two-byte character across the limit, long of two-byte characters.
DiagTexts(limit) ==
    {<<[n |-> 40, w |-> 1]>>,
     <<[n |-> limit + 50, w |-> 1]>>,
     <<[n |-> limit - 1, w |-> 1], [n |-> 1, w |-> 2], [n |-> 10, w |-> 1]>>,
     <<[n |-> limit, w |-> 2]>>}

\* ------------------------------------------------------ the provider chain

Call(p, r, img, safety) == [p |-> p, r |-> r, img |-> img, safety |-> safety]

\* The last call of c returned with outcome r.
CallDone(c, r, img, safety) ==
    [c EXCEPT ![Len(c)] = Call(c[Len(c)].p, r, img, safety \/ c[Len(c)].safety)]

\* gemini.rs:658.
GeminiErr(cause) == <<"gemini image failed">> \o cause

\* comic.rs:303 after a remote-renderer failure ne, gemini.rs:658 otherwise.
ChainErr(ne, cause) ==
    IF ne # << >>
    THEN <<"nano-banana failed">> \o ne \o <<"gemini fallback failed">> \o GeminiErr(cause)
    ELSE GeminiErr(cause)

\* A callback that publishes every value above the last published one.
PublishesEveryRise(completed, lt) == completed > lt

\* comic.rs:290 / comic.rs:310: the throttle of the progress callback.
Publishes(completed, lt) == completed > lt /\ completed % PublishEvery = 0

\* A task that treats every payload as undecodable.
AfterOkRejecting(data) == "w_fail_decode"

\* comic.rs:326-369: where the task goes with an Ok(b64_img).
AfterOk(data) == IF decode_base64_png(data) = "Ok" THEN "file_write" ELSE "w_fail_decode"

\* gemini.rs:171-180: the locals of the streaming call; they are dropped when
\* the call stops reading its stream.
DropStreamLocals(j) ==
    /\ progress' = [progress EXCEPT ![j] = 0]
    /\ latest_b64' = [latest_b64 EXCEPT ![j] = None]
    /\ latest_http_uri' = [latest_http_uri EXCEPT ![j] = None]
    /\ last_json_debug' = [last_json_debug EXCEPT ![j] = FALSE]

\* comic.rs:250-324: the locals of the rendering block; they are dropped when
\* the block has computed nb_res.
DropChainLocals(j) ==
    /\ tick_completed' = [tick_completed EXCEPT ![j] = 0]
    /\ last_tick' = [last_tick EXCEPT ![j] = 0]
    /\ nano_e' = [nano_e EXCEPT ![j] = << >>]

\* gemini.rs:654-656 -> gemini.rs:316-356: the non-streaming endpoint is called
\* after the streaming call, whose outcome fills the last entry of c.
EnterOnce(j, c) ==
    /\ calls' = [calls EXCEPT ![j] = Append(c, Call("once", "pending", FALSE, FALSE))]
    /\ Goto(j, "once_send")

\* gemini.rs:649-660 from its start (gemini.rs:119-161): without an API key the
\* streaming call and then the non-streaming call fail before any request.
\* ne is the remote renderer's error, if it was tried, and lt the initial
\* last_tick of the progress callback (comic.rs:288 / comic.rs:308).
EnterGemini(j, c, ne, lt) ==
    IF settings[j][1].gemini_api_key
    THEN /\ calls' = [calls EXCEPT ![j] = Append(c, Call("stream", "pending", FALSE, FALSE))]
         /\ nano_e' = [nano_e EXCEPT ![j] = ne]
         /\ last_tick' = [last_tick EXCEPT ![j] = lt]
         /\ tick_completed' = [tick_completed EXCEPT ![j] = 0]
         /\ Goto(j, "img_send")
         /\ UNCHANGED err
    ELSE /\ calls' = [calls EXCEPT ![j] =
                         c \o <<Call("stream", "Gemini API key not set", FALSE, FALSE),
                                Call("once", "Gemini API key not set", FALSE, FALSE)>>]
         /\ err' = [err EXCEPT ![j] = ChainErr(ne, <<"Gemini API key not set">>)]
         /\ DropChainLocals(j)
         /\ Goto(j, "w_fail_image")

\* A chain that tries the remote renderer whatever the settings say.
NanoAlways(j) == TRUE

\* A chain that looks the remote renderer up in the settings file at each use.
NanoFromFile(j) == settings_file.nano_banana_base_url

\* comic.rs:250: `if let Some(nb_base) = settings.nano_banana_base_url.clone()`.
NanoConfigured(j) == settings[j][1].nano_banana_base_url

\* comic.rs:248-254 and 306-309: create_dir_all returned (its result is dropped).
MkdirDone(j) ==
    /\ Resumes(j, "mkdir")
    /\ IF NanoConfigured(j)
       THEN /\ calls' = [calls EXCEPT ![j] = Append(@, Call("nano", "pending", FALSE, FALSE))]
            /\ Goto(j, "nano_wait")
            /\ UNCHANGED <<err, tick_completed, last_tick, nano_e>>
       ELSE EnterGemini(j, calls[j], << >>, 0)
    /\ UNCHANGED <<registry, cmdVars, settings, storyboard_text, progress,
                   latest_b64, latest_http_uri, last_json_debug, nb_res>>

\* gemini.rs:1071-1091: errors of the remote renderer (transport; a response
\* without an image).
NanoErrors == {"nano-banana request failed", "nano-banana: no image in response"}

\* A fallback whose progress callback starts from zero.
FallbackFromZero(j) == 0

\* comic.rs:288: `let mut last_tick: u32 = tick_completed;`.
FallbackLastTick(j) == tick_completed[j]

\* A heartbeat that is due at every elapsed sleep.
TickAlwaysDue(t) == TRUE

\* comic.rs:262: `if tick_completed < 98`.
TickDue(t) == t < TickCap

\* comic.rs:263: `tick_completed.saturating_add(2).min(98)`.
NextTick(t) == Min(t + TickStep, TickCap)

\* comic.rs:257-305: the select! of the request against the 800 ms sleep.
NanoWait(j) ==
    /\ Resumes(j, "nano_wait")
    /\ \/ /\ tick_completed[j] < TickStep * MaxTicks
          /\ TickDue(tick_completed[j])
          /\ tick_completed' = [tick_completed EXCEPT ![j] = NextTick(@)]
          /\ Goto(j, "w_tick")
          /\ UNCHANGED <<calls, nb_res, last_tick, nano_e, err>>
       \/ \E d \in PayloadData :
            /\ calls' = [calls EXCEPT ![j] = CallDone(@, "ok", TRUE, FALSE)]
            /\ nb_res' = [nb_res EXCEPT ![j] = Some(Payload("nano", d))]
            /\ Goto(j, AfterOk(d))
            /\ DropChainLocals(j)
            /\ UNCHANGED err
       \/ \E e \in NanoErrors :
            /\ EnterGemini(j, CallDone(calls[j], e, FALSE, FALSE), <<e>>,
                           FallbackLastTick(j))
            /\ UNCHANGED nb_res
    /\ UNCHANGED <<registry, cmdVars, settings, storyboard_text, progress,
                   latest_b64, latest_http_uri, last_json_debug>>

\* comic.rs:262-274: the heartbeat write.
WriteTick(j) ==
    /\ pc[j] = "w_tick"
    /\ Write(j, ComicJobStatus(j, "Rendering", tick_completed[j], HeartbeatTotal,
                               << >>, None, Some(storyboard_text[j])))
    /\ Goto(j, "nano_wait")
    /\ UNCHANGED <<cmdVars, taskVars>>


\* gemini.rs:155-168: the errors of the streaming request before its body.
StreamSendErrors == {"gemini image error: HTTP"}

\* gemini.rs:155-181: the streaming request was answered; on success progress
\* starts at 1 and is reported.
ImgSendDone(j) ==
    /\ Resumes(j, "img_send")
    /\ \/ /\ progress' = [progress EXCEPT ![j] = 1]
          /\ Goto(j, IF Publishes(1, last_tick[j]) THEN "w_progress" ELSE "img_stream")
          /\ UNCHANGED calls
       \/ \E e \in StreamSendErrors :
            /\ EnterOnce(j, CallDone(calls[j], e, FALSE, FALSE))
            /\ UNCHANGED progress
    /\ UNCHANGED <<registry, cmdVars, settings, storyboard_text,
                   tick_completed, last_tick, latest_b64, latest_http_uri,
                   last_json_debug, err, nano_e, nb_res>>

\* One NDJSON line of the streaming response: whether it parses as JSON, the
\* inline image data find_image_data finds in it, whether find_http_uri finds
\* an http(s) URI, whether it carries finishReason SAFETY, and its serialized text.
LinesWith(uris, safeties, texts) ==
    [json : BOOLEAN, inline : {None} \cup {Some(d) : d \in PayloadData},
     uri : {None} \cup {Some(u) : u \in uris}, safety : safeties, text : texts]

\* http(s) file URIs a response can name.
FileUris == {"https://a", "https://b"}

StreamLines == LinesWith({"https://a"}, BOOLEAN, DiagTexts(StreamSampleLen))

\* gemini.rs:204-210: `latest_b64 = Some(s)` for each line where find_image_data
\* finds something.
CaptureB64(cur, ln) ==
    IF ln.json /\ ln.inline # None THEN Some(Payload("stream", ln.inline[1])) ELSE cur

\* A capture that forgets the URI at a line that is not JSON.
CaptureUriForgetful(cur, ln) ==
    IF ~ln.json THEN None ELSE IF cur = None THEN ln.uri ELSE cur

\* gemini.rs:259-267: find_http_uri is consulted only while latest_http_uri is None.
CaptureUri(cur, ln) ==
    IF ln.json /\ cur = None THEN ln.uri ELSE cur

\* A result selection that prefers the URI to the inline payload.
AfterCloseUriFirst(b64, uri) ==
    IF uri # None THEN "fetch" ELSE IF b64 # None THEN "inline" ELSE "none"

\* gemini.rs:287-308: what the call does once the stream has closed.
AfterClose(b64, uri) ==
    IF b64 # None THEN "inline" ELSE IF uri # None THEN "fetch" ELSE "none"

\* gemini.rs:183-283: stream.next() returned a chunk holding one line, a
\* transport error, or the end of the stream.
ImgStreamNext(j) ==
    /\ Resumes(j, "img_stream")
    /\ \/ \E ln \in StreamLines :
            /\ progress[j] < 1 + ProgressStep * MaxLines
            /\ IF ln.json /\ ~last_json_debug[j]
                  /\ SampleOutcome(ln.text, StreamSampleLen) = "panic"
               THEN /\ Goto(j, "panicked")
                    /\ UNCHANGED <<latest_b64, latest_http_uri, last_json_debug,
                                   progress, calls>>
               ELSE /\ last_json_debug' = [last_json_debug EXCEPT ![j] = @ \/ ln.json]
                    /\ latest_b64' = [latest_b64 EXCEPT ![j] = CaptureB64(@, ln)]
                    /\ latest_http_uri' = [latest_http_uri EXCEPT ![j] =
                                             CaptureUri(@, ln)]
                    /\ calls' = [calls EXCEPT ![j] =
                          [@ EXCEPT ![Len(@)].safety = @ \/ (ln.json /\ ln.safety)]]
                    /\ IF progress[j] < ProgressCap
                       THEN /\ progress' = [progress EXCEPT ![j] = @ + ProgressStep]
                            /\ Goto(j, IF Publishes(progress[j] + ProgressStep, last_tick[j])
                                       THEN "w_progress" ELSE "img_stream")
                       ELSE /\ UNCHANGED progress
                            /\ Goto(j, "img_stream")
       \/ /\ EnterOnce(j, CallDone(calls[j], "gemini stream error", FALSE, FALSE))
          /\ DropStreamLocals(j)
       \/ /\ Goto(j, "w_finalize")
          /\ UNCHANGED <<latest_b64, latest_http_uri, last_json_debug, progress, calls>>
    /\ UNCHANGED <<registry, cmdVars, settings, storyboard_text,
                   tick_completed, last_tick, err, nano_e, nb_res>>

\* comic.rs:289-302 / 309-322: the callback publishes a qualifying tick.
WriteProgress(j) ==
    /\ pc[j] = "w_progress"
    /\ last_tick' = [last_tick EXCEPT ![j] = progress[j]]
    /\ Write(j, ComicJobStatus(j, "Rendering", progress[j], StreamTotal, << >>,
                               None, Some(storyboard_text[j])))
    /\ Goto(j, "img_stream")
    /\ UNCHANGED <<cmdVars, settings, storyboard_text, tick_completed, progress,
                   latest_b64, latest_http_uri, last_json_debug, err, nano_e,
                   nb_res, calls>>

\* The callback invoked with (completed, StreamTotal) outside the line loop.
OnProgress(j, completed) ==
    IF Publishes(completed, last_tick[j])
    THEN /\ last_tick' = [last_tick EXCEPT ![j] = completed]
         /\ Write(j, ComicJobStatus(j, "Rendering", completed, StreamTotal, << >>,
                                    None, Some(storyboard_text[j])))
    ELSE UNCHANGED <<last_tick, registry>>

\* gemini.rs:285-308: after the stream closed: on_progress(99), then the
\* inline payload, else the URI to fetch, else the error.
Finalize(j) ==
    /\ pc[j] = "w_finalize"
    /\ OnProgress(j, FinalizeProgress)
    /\ DropStreamLocals(j)
    /\ IF AfterClose(latest_b64[j], latest_http_uri[j]) = "inline"
       THEN /\ nb_res' = [nb_res EXCEPT ![j] = latest_b64[j]]
            /\ Goto(j, "w_done_progress")
            /\ UNCHANGED calls
       ELSE IF AfterClose(latest_b64[j], latest_http_uri[j]) = "fetch"
       THEN /\ Goto(j, "uri_fetch")
            /\ UNCHANGED <<nb_res, calls>>
       ELSE /\ EnterOnce(j, CallDone(calls[j], "gemini stream: no image data received",
                                     FALSE, FALSE))
            /\ UNCHANGED nb_res
    /\ UNCHANGED <<cmdVars, settings, storyboard_text, tick_completed, err, nano_e>>

\* gemini.rs:295-298.
StreamFetchErrors == {"gemini stream: fetch uri failed"}

\* gemini.rs:289-300: the GET of the file URI returned.
UriFetchDone(j) ==
    /\ Resumes(j, "uri_fetch")
    /\ \/ /\ nb_res' = [nb_res EXCEPT ![j] = Some(Payload("stream", FetchedB64))]
          /\ Goto(j, "w_done_progress")
          /\ UNCHANGED calls
       \/ \E e \in StreamFetchErrors :
            /\ EnterOnce(j, CallDone(calls[j], e, FALSE, FALSE))
            /\ UNCHANGED nb_res
    /\ UNCHANGED <<registry, cmdVars, settings, storyboard_text,
                   tick_completed, last_tick, progress, latest_b64,
                   latest_http_uri, last_json_debug, err, nano_e>>

\* gemini.rs:309-311 and gemini.rs:655: on_progress(100), the streaming call
\* returns Ok and the chain returns it.
WriteDoneProgress(j) ==
    /\ pc[j] = "w_done_progress"
    /\ IF Publishes(DoneProgress, last_tick[j])
       THEN Write(j, ComicJobStatus(j, "Rendering", DoneProgress, StreamTotal, << >>,
                                    None, Some(storyboard_text[j])))
       ELSE UNCHANGED registry
    /\ DropChainLocals(j)
    /\ calls' = [calls EXCEPT ![j] = CallDone(@, "ok", TRUE, FALSE)]
    /\ Goto(j, AfterOk(nb_res[j][1].data))
    /\ UNCHANGED <<cmdVars, settings, storyboard_text, progress, latest_b64,
                   latest_http_uri, last_json_debug, err, nb_res>>

\* gemini.rs:350-366.
OnceSendErrors == {"gemini image request failed", "gemini image error: HTTP"}

\* The JSON body of a non-streaming response: finishReason SAFETY on the first
\* candidate, inline image data, an http(s) file URI, the text of its first part.
OnceResponses ==
    [safety : BOOLEAN, inline : {None} \cup {Some(d) : d \in PayloadData},
     uri : BOOLEAN, text : DiagTexts(TextSampleLen)]

\* The chain fails with cause e (gemini.rs:656-658, comic.rs:303).
ChainFails(j, r, img, safety, cause) ==
    /\ calls' = [calls EXCEPT ![j] = CallDone(@, r, img, safety)]
    /\ err' = [err EXCEPT ![j] = ChainErr(nano_e[j], cause)]
    /\ DropChainLocals(j)
    /\ Goto(j, "w_fail_image")
    /\ UNCHANGED nb_res

\* The chain returns payload d of the non-streaming endpoint.
ChainReturns(j, from, d) ==
    /\ calls' = [calls EXCEPT ![j] = CallDone(@, "ok", TRUE, FALSE)]
    /\ nb_res' = [nb_res EXCEPT ![j] = Some(Payload(from, d))]
    /\ DropChainLocals(j)
    /\ Goto(j, AfterOk(d))
    /\ UNCHANGED err

\* What the log keeps of a call that panicked on response resp (gemini.rs:392),
\* before the response was searched for an image.
OncePanicked(resp) ==
    IF resp.safety THEN "panicked: blocked"
    ELSE IF resp.inline # None \/ resp.uri THEN "panicked: image"
    ELSE "panicked: no image"

\* gemini.rs:350-578: the first non-streaming request was answered.
OnceSendDone(j) ==
    /\ Resumes(j, "once_send")
    /\ \/ \E e \in OnceSendErrors : ChainFails(j, e, FALSE, FALSE, <<e>>)
       \/ \E resp \in OnceResponses :
            IF SampleOutcome(resp.text, TextSampleLen) = "panic"
            THEN /\ Goto(j, "panicked")
                 /\ calls' = [calls EXCEPT ![j] =
                       CallDone(@, OncePanicked(resp), FALSE, resp.safety)]
                 /\ UNCHANGED <<err, nb_res, tick_completed, last_tick, nano_e>>
            ELSE IF resp.safety
            THEN ChainFails(j, "gemini image blocked by safety filters",
                            resp.inline # None, TRUE,
                            <<"gemini image blocked by safety filters">>)
            ELSE IF resp.inline # None
            THEN ChainReturns(j, "once", resp.inline[1])
            ELSE IF resp.uri
            THEN /\ Goto(j, "once_uri_fetch")
                 /\ UNCHANGED <<calls, err, nb_res, tick_completed, last_tick, nano_e>>
            ELSE /\ calls' = [calls EXCEPT ![j] =
                       Append(CallDone(@, "no image", FALSE, FALSE),
                              Call("retry", "pending", FALSE, FALSE))]
                 /\ Goto(j, "retry_send")
                 /\ UNCHANGED <<err, nb_res, tick_completed, last_tick, nano_e>>
    /\ UNCHANGED <<registry, cmdVars, settings, storyboard_text, progress,
                   latest_b64, latest_http_uri, last_json_debug>>

\* gemini.rs:569-572 / gemini.rs:634-637.
OnceFetchErrors(p) ==
    IF p = "once"
    THEN {"gemini once: fetch uri failed"}
    ELSE {"gemini once retry: fetch uri failed"}

\* gemini.rs:555-575 (p = "once") and gemini.rs:621-640 (p = "retry"): the GET
\* of the file URI returned.
OnceUriFetchDone(j, p) ==
    /\ Resumes(j, IF p = "once" THEN "once_uri_fetch" ELSE "retry_uri_fetch")
    /\ \/ ChainReturns(j, p, FetchedB64)
       \/ \E e \in OnceFetchErrors(p) : ChainFails(j, e, FALSE, FALSE, <<e>>)
    /\ UNCHANGED <<registry, cmdVars, settings, storyboard_text, progress,
                   latest_b64, latest_http_uri, last_json_debug>>

\* gemini.rs:598-616.
RetrySendErrors == {"gemini image failed (retry): HTTP"}

\* The JSON body of the retry's response.
RetryResponses ==
    [safety : BOOLEAN, inline : {None} \cup {Some(d) : d \in PayloadData},
     uri : BOOLEAN, text : DiagTexts(RetrySampleLen)]

\* gemini.rs:598-646: the stricter retry was answered.
RetrySendDone(j) ==
    /\ Resumes(j, "retry_send")
    /\ \/ \E e \in RetrySendErrors : ChainFails(j, e, FALSE, FALSE, <<e>>)
       \/ \E resp \in RetryResponses :
            IF resp.inline # None
            THEN ChainReturns(j, "retry", resp.inline[1])
            ELSE IF resp.uri
            THEN /\ Goto(j, "retry_uri_fetch")
                 /\ calls' = [calls EXCEPT ![j] =
                       [@ EXCEPT ![Len(@)].safety = resp.safety]]
                 /\ UNCHANGED <<err, nb_res, tick_completed, last_tick, nano_e>>
            ELSE IF SampleOutcome(resp.text, RetrySampleLen) = "panic"
            THEN /\ Goto(j, "panicked")
                 /\ UNCHANGED <<calls, err, nb_res, tick_completed, last_tick, nano_e>>
            ELSE ChainFails(j, "gemini image: no inline image data in response (after retry)",
                            FALSE, resp.safety,
                            <<"gemini image: no inline image data in response (after retry)">>)
    /\ UNCHANGED <<registry, cmdVars, settings, storyboard_text, progress,
                   latest_b64, latest_http_uri, last_json_debug>>

\* comic.rs:371-382.
WriteFailImage(j) ==
    /\ pc[j] = "w_fail_image"
    /\ Write(j, ComicJobStatus(j, "Failed", 0, 0,
                               <<"image generation failed">> \o err[j], None,
                               Some(storyboard_text[j])))
    /\ Goto(j, "finished")
    /\ err' = [err EXCEPT ![j] = << >>]
    /\ UNCHANGED <<cmdVars, settings, storyboard_text, tick_completed, last_tick,
                   progress, latest_b64, latest_http_uri, last_json_debug, nano_e,
                   nb_res, calls>>

\* A decode failure that is published without ending the task.
WriteFailDecodeAndGoOn(j) ==
    /\ pc[j] = "w_fail_decode"
    /\ Write(j, ComicJobStatus(j, "Failed", 0, 0,
                               <<"image decode failed", "base64 decode">>, None,
                               Some(storyboard_text[j])))
    /\ Goto(j, "w_saving")
    /\ UNCHANGED <<cmdVars, taskVars>>

\* comic.rs:357-368.
WriteFailDecode(j) ==
    /\ pc[j] = "w_fail_decode"
    /\ Write(j, ComicJobStatus(j, "Failed", 0, 0,
                               <<"image decode failed", "base64 decode">>, None,
                               Some(storyboard_text[j])))
    /\ Goto(j, "finished")
    /\ err' = [err EXCEPT ![j] = << >>]
    /\ UNCHANGED <<cmdVars, settings, storyboard_text, tick_completed, last_tick,
                   progress, latest_b64, latest_http_uri, last_json_debug, nano_e,
                   nb_res, calls>>

\* The value of a character of the base64 alphabet.
B64Value(c) ==
    CASE c = "Q" -> 16
      [] c = "U" -> 20
      [] c = "J" -> 9
      [] c = "D" -> 3

\* The bytes base64::decode yields for a string of whole groups of four.
B64Decode(s) ==
    [i \in 1..((Len(s) \div 4) * 3) |->
        LET g == ((i - 1) \div 3) * 4
            a == B64Value(s[g + 1])
            b == B64Value(s[g + 2])
            c == B64Value(s[g + 3])
            d == B64Value(s[g + 4])
        IN CASE (i - 1) % 3 = 0 -> a * 4 + b \div 16
             [] (i - 1) % 3 = 1 -> (b % 16) * 16 + c \div 4
             [] OTHER -> (c % 4) * 64 + d]

PngMagic == <<137, 80, 78, 71, 13, 10, 26, 10>>
JpegMagic == <<255, 216, 255>>
RiffMagic == <<82, 73, 70, 70>>
WebpMagic == <<87, 69, 66, 80>>

\* A guess that takes every RIFF container for a WEBP image.
guess_by_container(bytes) ==
    IF Len(bytes) >= 8 /\ SubSeq(bytes, 1, 8) = PngMagic THEN "png"
    ELSE IF Len(bytes) >= 3 /\ SubSeq(bytes, 1, 3) = JpegMagic THEN "jpg"
    ELSE IF Len(bytes) >= 12 /\ SubSeq(bytes, 1, 4) = RiffMagic THEN "webp"
    ELSE "png"

\* comic.rs:58-75
guess_image_extension(bytes) ==
    IF Len(bytes) >= 8 /\ SubSeq(bytes, 1, 8) = PngMagic THEN "png"
    ELSE IF Len(bytes) >= 3 /\ SubSeq(bytes, 1, 3) = JpegMagic THEN "jpg"
    ELSE IF Len(bytes) >= 12 /\ SubSeq(bytes, 1, 4) = RiffMagic
                             /\ SubSeq(bytes, 9, 12) = WebpMagic THEN "webp"
    ELSE "png"

\* comic.rs:247: data_root.join("images").join(&eid), as path components.
images_dir(j) == <<"data_root", "images", entry_id(j)>>

\* A result file put directly under the images directory of the data root.
ResultPathFlat(j) ==
    Some([dir |-> <<"data_root", "images">>,
          file |-> <<j, "-result.",
                     guess_image_extension(B64Decode(AfterFirstComma(nb_res[j][1].data)))>>])

\* comic.rs:330-331, 341: img_path, the directory and the file name
\* "<jid>-result.<ext>" of the result file of job j.
ResultPath(j) ==
    Some([dir |-> images_dir(j),
          file |-> <<j, "-result.",
                     guess_image_extension(B64Decode(AfterFirstComma(nb_res[j][1].data)))>>])

\* comic.rs:332: `let _ = tokio::fs::write(&img_path, bytes).await`: the bytes
\* are on disk, or the write failed (the directory is missing because
\* create_dir_all failed at comic.rs:248, the disk is full, ...); the result is
\* dropped either way.
FileWriteDone(j) ==
    /\ Resumes(j, "file_write")
    /\ \/ files' = files \cup {ResultPath(j)[1]}
       \/ UNCHANGED files
    /\ Goto(j, "w_saving")
    /\ UNCHANGED <<registry, jobs, settings_file, fx, sp, sub, aborted, reply, taskVars>>

\* A Saving status that does not name the file.
WriteSavingWithoutPath(j) ==
    /\ pc[j] = "w_saving"
    /\ Write(j, ComicJobStatus(j, "Saving", 0, 0, << >>, None,
                               Some(storyboard_text[j])))
    /\ Goto(j, "sleep_save")
    /\ UNCHANGED <<cmdVars, taskVars>>

\* comic.rs:335-345.
WriteSaving(j) ==
    /\ pc[j] = "w_saving"
    /\ Write(j, ComicJobStatus(j, "Saving", 0, 0, << >>, ResultPath(j),
                               Some(storyboard_text[j])))
    /\ Goto(j, "sleep_save")
    /\ UNCHANGED <<cmdVars, taskVars>>

\* comic.rs:345: the 100 ms sleep elapsed.
SaveSleepDone(j) ==
    /\ Resumes(j, "sleep_save")
    /\ Goto(j, "w_done")
    /\ UNCHANGED <<registry, cmdVars, taskVars>>

\* comic.rs:347-355: Done is published and the task ends.
WriteDone(j) ==
    /\ pc[j] = "w_done"
    /\ Write(j, ComicJobStatus(j, "Done", 0, 0, << >>, ResultPath(j),
                               Some(storyboard_text[j])))
    /\ Goto(j, "finished")
    /\ err' = [err EXCEPT ![j] = << >>]
    /\ UNCHANGED <<cmdVars, settings, storyboard_text, tick_completed, last_tick,
                   progress, latest_b64, latest_http_uri, last_json_debug, nano_e,
                   nb_res, calls>>

\* ------------------------------------------------------- specification

TaskStep(j) ==
    \/ PollFirst(j) \/ WriteParsing(j) \/ ParseSleepDone(j) \/ WriteStoryboarding(j)
    \/ EntryLoaded(j) \/ WriteFailEntry(j) \/ WritePrompting(j) \/ TextSendDone(j)
    \/ TextStreamNext(j) \/ OnChunk(j) \/ WriteFailText(j) \/ WriteRendering(j)
    \/ MkdirDone(j) \/ NanoWait(j) \/ WriteTick(j) \/ ImgSendDone(j)
    \/ ImgStreamNext(j) \/ WriteProgress(j) \/ Finalize(j) \/ UriFetchDone(j)
    \/ WriteDoneProgress(j) \/ OnceSendDone(j) \/ OnceUriFetchDone(j, "once")
    \/ RetrySendDone(j) \/ OnceUriFetchDone(j, "retry") \/ WriteFailImage(j)
    \/ WriteFailDecode(j) \/ FileWriteDone(j) \/ WriteSaving(j) \/ SaveSleepDone(j)
    \/ WriteDone(j)

Next ==
    \/ \E j \in JobIds : SubmitInsertQueued(j)
    \/ \E j \in JobIds : SubmitSpawn(j)
    \/ \E j \in JobIds : SubmitReturn(j)
    \/ \E j \in CommandIds : get_comic_job_status(j)
    \/ \E j \in CommandIds : cancel_job(j)
    \/ \E j \in JobIds : TaskStep(j)

Spec == Init /\ [][Next]_vars

\* The program with a client that submits jobs and changes the settings at
\* any moment, and leaves the jobs alone otherwise.
NextSettings ==
    \/ \E j \in JobIds : SubmitInsertQueued(j)
    \/ \E j \in JobIds : SubmitSpawn(j)
    \/ \E j \in JobIds : SubmitReturn(j)
    \/ \E s \in SettingsValues : update_settings(s)
    \/ \E j \in JobIds : TaskStep(j)

SpecSettings == Init /\ [][NextSettings]_vars

\* Two submissions: the first for an entry of the store, the second for an
\* entry that is not in it.
TwoJobs == {1, 2}

\* get_entry_body fails with the error of a missing row.
EntryNotFound(j) == EntryLoaded(j) /\ err'[j] = <<"db">>

\* The steps of a task whose entry is not in the store (comic.rs:113-154).
MissingEntryTaskStep(j) ==
    \/ PollFirst(j) \/ WriteParsing(j) \/ ParseSleepDone(j)
    \/ WriteStoryboarding(j) \/ EntryNotFound(j) \/ WriteFailEntry(j)

\* The steps of a task that renders with the remote renderer and has no key
\* for the cloud model: every step of the task but those of the cloud calls.
RemoteRenderTaskStep(j) ==
    \/ PollFirst(j) \/ WriteParsing(j) \/ ParseSleepDone(j) \/ WriteStoryboarding(j)
    \/ EntryLoaded(j) \/ WriteFailEntry(j) \/ WritePrompting(j) \/ TextSendDone(j)
    \/ TextStreamNext(j) \/ OnChunk(j) \/ WriteFailText(j) \/ WriteRendering(j)
    \/ MkdirDone(j) \/ NanoWait(j) \/ WriteTick(j) \/ WriteFailImage(j)
    \/ WriteFailDecode(j) \/ FileWriteDone(j) \/ WriteSaving(j) \/ SaveSleepDone(j)
    \/ WriteDone(j)

\* The remote renderer is configured and no key of the cloud model is stored.
InitJobs ==
    /\ InitWith(TwoJobs)
    /\ settings_file = [nano_banana_base_url |-> TRUE, gemini_api_key |-> FALSE]
    /\ fx = Idle
    /\ sp = Idle

NextJobs ==
    \/ \E j \in TwoJobs : SubmitInsertQueued(j)
    \/ \E j \in TwoJobs : SubmitSpawn(j)
    \/ \E j \in TwoJobs : SubmitReturn(j)
    \/ \E j \in TwoJobs : cancel_job(j)
    \/ RemoteRenderTaskStep(1)
    \/ MissingEntryTaskStep(2)

SpecJobs == InitJobs /\ [][NextJobs]_vars

\* The runtime polls every task that can make progress, a command that was
\* called returns, and every request, stream and timer the task awaits
\* completes or fails: each step of a job's task and of its submission that
\* stays enabled is eventually taken.
Fairness ==
    \A j \in JobIds :
        /\ WF_vars(TaskStep(j))
        /\ WF_vars(SubmitSpawn(j))
        /\ WF_vars(SubmitReturn(j))

SpecFair == Spec /\ Fairness

\* ============================== one call of generate_image_stream_progress
\* The call is studied on a given response body: its newline-terminated lines
\* and what follows the last newline (gemini.rs:183-283 handles a line when it
\* meets the '\n' that ends it, and nothing reads buf after the loop).

programVars == <<jobs, registry, settings_file, files, sub, pc, aborted, taskVars,
                 reply>>

Ok(v) == [ok |-> TRUE, v |-> v]
Err(e) == [ok |-> FALSE, v |-> Payload("error", <<e>>)]

\* The lines of the bodies: a line that is not JSON, JSON lines with or without
\* inline data and a file URI, and a JSON line whose serialization cannot be
\* cut at the sample length.
BodyLines ==
    {ln \in LinesWith(FileUris, {FALSE}, DiagTexts(StreamSampleLen)) :
        /\ SampleOutcome(ln.text, StreamSampleLen) # "truncated"
        /\ ByteLen(ln.text) <= StreamSampleLen
              \/ (ln.json /\ ln.inline = None /\ ln.uri = None)
        /\ ln.json \/ (ln.inline = None /\ ln.uri = None)}

Bodies == UNION {[1..n -> BodyLines] : n \in 0..MaxBodyLines}

\* What can follow the last newline: nothing, or a JSON line with inline data.
Tails ==
    {None} \cup {Some(ln) : ln \in {l \in BodyLines : l.inline # None /\ l.uri = None}}

\* A nudge without the cap.
NudgeUncapped(p) == Some(p + ProgressStep)

\* gemini.rs:273-276: the value one more line brings progress to and passes to
\* on_progress, if any.
Nudge(p) == IF p < ProgressCap THEN Some(p + ProgressStep) ELSE None

\* on_progress(completed, total) appended to the calls of the callback so far.
Report(reports, completed) ==
    Append(reports, [completed |-> completed, total |-> StreamTotal])

\* gemini.rs:175-177 and 270-276: the calls of the callback once the first
\* on_progress(1, total) and n blank lines are behind.
LeadReports(n) ==
    LET nudged == Cardinality({k \in 1..n : 1 + ProgressStep * (k - 1) < ProgressCap})
    IN [i \in 1..(nudged + 1) |->
           [completed |-> 1 + ProgressStep * (i - 1), total |-> StreamTotal]]

\* Blank lines at the head of a body: none, or enough to bring progress near
\* its cap.
LeadLines == {0, 47}

\* StatusCode::is_success
IsSuccess(status) == status >= 200 /\ status <= 299

\* HTTP statuses the GET of a file URI can be answered with.
FetchStatuses == {200, 404, 500}

\* The call once the lead blank lines of its body are handled; body and tail
\* are what follows them.
StreamCall(body, tail, lead) ==
    [at |-> "img_stream", body |-> body, tail |-> tail, pos |-> 0,
     latest_b64 |-> None, latest_http_uri |-> None, last_json_debug |-> FALSE,
     lead |-> lead,
     progress |-> LeadReports(lead)[Len(LeadReports(lead))].completed,
     reports |-> LeadReports(lead),
     fetched |-> None,
     out |-> Err("pending")]

\* gemini.rs:183-277: the next newline-terminated line is handled.
StreamLineRead ==
    /\ sp.at = "img_stream"
    /\ sp.pos < Len(sp.body)
    /\ LET ln == sp.body[sp.pos + 1] IN
         sp' = IF ln.json /\ ~sp.last_json_debug
                  /\ SampleOutcome(ln.text, StreamSampleLen) = "panic"
               THEN [sp EXCEPT !.at = "panicked"]
               ELSE [sp EXCEPT !.pos = @ + 1,
                               !.last_json_debug = @ \/ ln.json,
                               !.latest_b64 = CaptureB64(@, ln),
                               !.latest_http_uri = CaptureUri(@, ln),
                               !.progress = IF Nudge(@) = None THEN @ ELSE Nudge(@)[1],
                               !.reports = IF Nudge(sp.progress) = None THEN @
                                           ELSE Report(@, Nudge(sp.progress)[1])]
    /\ UNCHANGED <<programVars, fx>>

\* gemini.rs:184: the transport fails before the body is complete.
StreamBroken ==
    /\ sp.at = "img_stream"
    /\ sp' = [sp EXCEPT !.at = "returned", !.out = Err("gemini stream error")]
    /\ UNCHANGED <<programVars, fx>>

\* gemini.rs:283-311: the stream closes after the last byte of the body.
StreamClosed ==
    /\ sp.at = "img_stream"
    /\ sp.pos = Len(sp.body)
    /\ sp' = CASE AfterClose(sp.latest_b64, sp.latest_http_uri) = "inline" ->
                    [sp EXCEPT !.at = "returned", !.out = Ok(sp.latest_b64[1]),
                               !.reports = Report(Report(@, FinalizeProgress),
                                                  DoneProgress)]
               [] AfterClose(sp.latest_b64, sp.latest_http_uri) = "fetch" ->
                    [sp EXCEPT !.at = "uri_fetch",
                               !.reports = Report(@, FinalizeProgress)]
               [] OTHER ->
                    [sp EXCEPT !.at = "returned",
                               !.out = Err("gemini stream: no image data received"),
                               !.reports = Report(@, FinalizeProgress)]
    /\ UNCHANGED <<programVars, fx>>

\* gemini.rs:291-300: the GET of latest_http_uri returned: a response of any
\* status, whose body is encoded (send() is Ok for every response and no
\* status is looked at), or a transport error.
StreamUriFetched ==
    /\ sp.at = "uri_fetch"
    /\ \/ \E status \in FetchStatuses :
            sp' = [sp EXCEPT !.at = "returned", !.fetched = Some(status),
                             !.out = Ok(Payload("stream", FetchedB64)),
                             !.reports = Report(@, DoneProgress)]
       \/ \E e \in StreamFetchErrors : sp' = [sp EXCEPT !.at = "returned", !.out = Err(e)]
    /\ UNCHANGED <<programVars, fx>>

InitStream ==
    /\ InitProgram
    /\ settings_file = [nano_banana_base_url |-> FALSE, gemini_api_key |-> TRUE]
    /\ fx = Idle
    /\ \E body \in Bodies : \E tail \in Tails : \E lead \in LeadLines :
          sp = StreamCall(body, tail, lead)

NextStream == StreamLineRead \/ StreamBroken \/ StreamClosed \/ StreamUriFetched

SpecStream == InitStream /\ [][NextStream]_vars

\* ======================================== one call of generate_streaming
\* The call is studied on a given answer of the text endpoint: the outcome of
\* the request and, for a success status, the NDJSON body.

\* The outcome of send(): a transport error (no response, status 0 here) or a
\* response with its HTTP status.
SendOutcomes ==
    {[answered |-> FALSE, status |-> 0]}
       \cup {[answered |-> TRUE, status |-> n] : n \in {200, 204, 301, 404, 500, 502}}

\* A check that knows NOT_FOUND only.
OnlyNotFound(status) == status = 404

\* ollama.rs:166: NOT_FOUND or BAD_GATEWAY.
Unreachable(status) == status = 404 \/ status = 502

ErrOf(parts) == [ok |-> FALSE, v |-> Payload("error", parts)]

\* ollama.rs:164-172: the error of a request that did not get a success status.
SendError(outcome) ==
    IF ~outcome.answered THEN ErrOf(<<"ollama request failed">>)
    ELSE IF Unreachable(outcome.status)
    THEN ErrOf(<<"Ollama server not reachable. Is it running on port 11434?">>)
    ELSE ErrOf(<<"ollama error: HTTP", outcome.status>>)

\* The lines of a text body: not JSON, JSON without `response`, JSON with an
\* empty or a non-empty `response` string.
TextLines ==
    {[json |-> FALSE, response |-> None], [json |-> TRUE, response |-> None],
     [json |-> TRUE, response |-> Some("")], [json |-> TRUE, response |-> Some("a")],
     [json |-> TRUE, response |-> Some("b")]}

TextBodies == UNION {[1..n -> TextLines] : n \in 0..MaxBodyLines}

TextTails == {None} \cup {Some(ln) : ln \in TextLines}

TextCall(outcome, body, tail) ==
    [at |-> "text_send", send |-> outcome, body |-> body, tail |-> tail, pos |-> 0,
     chunks |-> << >>, out |-> ErrOf(<<"pending">>)]

\* ollama.rs:189-194 and 210-215: on_chunk(s) for a line with a non-empty response.
OnLine(chunks, ln) ==
    IF ln.json /\ ln.response # None /\ ln.response[1] # ""
    THEN Append(chunks, ln.response[1]) ELSE chunks

\* ollama.rs:159-172: send() returned.
TextSent ==
    /\ sp.at = "text_send"
    /\ sp' = IF sp.send.answered /\ IsSuccess(sp.send.status)
             THEN [sp EXCEPT !.at = "text_stream"]
             ELSE [sp EXCEPT !.at = "returned", !.out = SendError(sp.send)]
    /\ UNCHANGED <<programVars, fx>>

\* ollama.rs:185-199: the next newline-terminated line is handled.
TextLineRead ==
    /\ sp.at = "text_stream"
    /\ sp.pos < Len(sp.body)
    /\ sp' = [sp EXCEPT !.pos = @ + 1, !.chunks = OnLine(@, sp.body[sp.pos + 1])]
    /\ UNCHANGED <<programVars, fx>>

\* ollama.rs:179: the transport fails before the body is complete.
TextStreamBroken ==
    /\ sp.at = "text_stream"
    /\ sp' = [sp EXCEPT !.at = "returned", !.out = ErrOf(<<"stream error">>)]
    /\ UNCHANGED <<programVars, fx>>

\* ollama.rs:207-219: the stream closed; the buffered last line is handled.
TextStreamClosed ==
    /\ sp.at = "text_stream"
    /\ sp.pos = Len(sp.body)
    /\ sp' = [sp EXCEPT !.at = "returned",
                        !.chunks = IF sp.tail = None THEN @ ELSE OnLine(@, sp.tail[1]),
                        !.out = Ok(Payload("unit", << >>))]
    /\ UNCHANGED <<programVars, fx>>

InitText ==
    /\ InitProgram
    /\ settings_file = [nano_banana_base_url |-> FALSE, gemini_api_key |-> TRUE]
    /\ fx = Idle
    /\ \E outcome \in SendOutcomes : \E body \in TextBodies : \E tail \in TextTails :
          sp = TextCall(outcome, body, tail)

NextText == TextSent \/ TextLineRead \/ TextStreamBroken \/ TextStreamClosed

SpecText == InitText /\ [][NextText]_vars

\* ================================================ find_image_data on a fragment
\* A JSON value is a string [str |-> characters], an array [arr |-> items], an
\* object [obj |-> members in iteration order, each [k |-> key, val |-> value]]
\* or a scalar [num |-> n].  A string is the sequence of its pieces, so that
\* starts_with is a comparison of leading pieces.

Str(s) == [str |-> s]
Arr(items) == [arr |-> items]
Obj(members) == [obj |-> members]
Member(k, val) == [k |-> k, val |-> val]

IsStr(v) == DOMAIN v = {"str"}
IsArr(v) == DOMAIN v = {"arr"}
IsObj(v) == DOMAIN v = {"obj"}

StartsWith(s, prefix) ==
    Len(s) >= Len(prefix) /\ SubSeq(s, 1, Len(prefix)) = prefix

DataImagePrefix == <<"data:", "image/">>
DataPrefix == <<"data:">>

\* serde_json Value::get(key): the member of an object, None on anything else.
Get(v, key) ==
    IF IsObj(v) /\ \E i \in 1..Len(v.obj) : v.obj[i].k = key
    THEN Some(v.obj[CHOOSE i \in 1..Len(v.obj) : v.obj[i].k = key].val)
    ELSE None

\* opt.and_then(|d| d.as_str())
AsStr(opt) == IF opt # None /\ IsStr(opt[1]) THEN Some(opt[1].str) ELSE None

\* opt.and_then(|a| a.as_array())
AsArray(opt) == IF opt # None /\ IsArr(opt[1]) THEN Some(opt[1].arr) ELSE None

\* a.or_else(|| b)
OrElse(a, b) == IF a # None THEN a ELSE b

\* The first element of a sequence of options that is not None.
FirstSome(opts) ==
    IF \E i \in 1..Len(opts) : opts[i] # None
    THEN opts[CHOOSE i \in 1..Len(opts) :
                 opts[i] # None /\ \A k \in 1..(i - 1) : opts[k] = None]
    ELSE None

\* The values a container iterates over, in order.
Children(v) ==
    IF IsArr(v) THEN v.arr
    ELSE IF IsObj(v) THEN [i \in 1..Len(v.obj) |-> v.obj[i].val]
    ELSE << >>

Found(by, s) == Some([by |-> by, s |-> s])

NonEmpty(by, optStr) ==
    IF optStr # None /\ optStr[1] # << >> THEN Found(by, optStr[1]) ELSE None

\* gemini.rs:22-38
RECURSIVE find_data_uri_in_any_string(_)
find_data_uri_in_any_string(v) ==
    IF IsStr(v)
    THEN IF StartsWith(v.str, DataImagePrefix) THEN Found("f", v.str) ELSE None
    ELSE LET c == Children(v)
         IN FirstSome([i \in 1..Len(c) |-> find_data_uri_in_any_string(c[i])])

\* gemini.rs:42-50: inlineData / inline_data
InlineDataOf(v) ==
    FirstSome([i \in 1..2 |->
        LET inline == Get(v, <<"inlineData", "inline_data">>[i])
        IN IF inline = None THEN None
           ELSE NonEmpty("a", AsStr(Get(inline[1], "data")))])

\* gemini.rs:52-56: bytesBase64Encoded / b64_json
BytesOf(v) ==
    FirstSome([i \in 1..2 |->
        NonEmpty("b", AsStr(Get(v, <<"bytesBase64Encoded", "b64_json">>[i])))])

\* gemini.rs:58-68: media[].inlineData.data
MediaOf(v) ==
    LET media == AsArray(Get(v, "media"))
    IN IF media = None THEN None
       ELSE FirstSome([i \in 1..Len(media[1]) |->
               LET inline == OrElse(Get(media[1][i], "inlineData"),
                                    Get(media[1][i], "inline_data"))
               IN IF inline = None THEN None
                  ELSE NonEmpty("c", AsStr(Get(inline[1], "data")))])

\* gemini.rs:70-80: dataUris / data_uris
DataUrisOf(v) ==
    FirstSome([i \in 1..2 |->
        LET arr == AsArray(Get(v, <<"dataUris", "data_uris">>[i]))
        IN IF arr = None THEN None
           ELSE FirstSome([k \in 1..Len(arr[1]) |->
                   NonEmpty("d", AsStr(Some(arr[1][k])))])])

\* gemini.rs:82-94: fileData.fileUri that is a data: URI
FileDataOf(v) ==
    FirstSome([i \in 1..2 |->
        LET fd == Get(v, <<"fileData", "file_data">>[i])
        IN IF fd = None THEN None
           ELSE LET uri == AsStr(OrElse(Get(fd[1], "fileUri"), Get(fd[1], "file_uri")))
                IN IF uri # None /\ StartsWith(uri[1], DataPrefix)
                   THEN Found("e", uri[1]) ELSE None])

\* gemini.rs:42-94: the fields looked up on one object, in the code's order.
DirectFields(v) ==
    FirstSome(<<InlineDataOf(v), BytesOf(v), MediaOf(v), DataUrisOf(v), FileDataOf(v)>>)

\* gemini.rs:40-97: what find_image_data tries on v itself before recursing.
AtObject(v) ==
    IF IsObj(v)
    THEN FirstSome(<<DirectFields(v), find_data_uri_in_any_string(v)>>)
    ELSE None

\* gemini.rs:20-118
RECURSIVE find_image_data(_)
find_image_data(v) ==
    LET here == AtObject(v)
        c == Children(v)
    IN IF here # None THEN here
       ELSE FirstSome([i \in 1..Len(c) |-> find_image_data(c[i])])

\* The fragments under study: strings, objects with one field of the kinds the
\* extractor knows or a plain text field, pairs of those, each inside up to
\* MaxDepth arrays or objects.
Strings ==
    {<<"data:", "image/", "png;base64,", "Zm9v">>, <<"data:", "text/plain,", "x">>,
     <<"https://", "a">>, <<"QUJD">>, << >>}

FieldObjects ==
    UNION {{Obj(<<Member("inlineData", Obj(<<Member("data", Str(s))>>))>>),
            Obj(<<Member("b64_json", Str(s))>>),
            Obj(<<Member("media", Arr(<<Obj(<<Member("inline_data",
                                        Obj(<<Member("data", Str(s))>>))>>)>>))>>),
            Obj(<<Member("dataUris", Arr(<<Str(s)>>))>>),
            Obj(<<Member("fileData", Obj(<<Member("fileUri", Str(s))>>))>>),
            Obj(<<Member("text", Str(s))>>),
            Str(s)} : s \in Strings}

Pairs ==
    {Obj(<<Member("text", Str(s)), Member("x", y)>>) :
        s \in {<<"data:", "image/", "png;base64,", "Zm9v">>, <<"QUJD">>}, y \in FieldObjects}

RECURSIVE Wrapped(_, _)
Wrapped(parts, depth) ==
    IF depth = 0 THEN parts
    ELSE LET w == Wrapped(parts, depth - 1)
         IN w \cup {Arr(<<x>>) : x \in w} \cup {Obj(<<Member("x", x)>>) : x \in w}

Fragments == Wrapped(FieldObjects \cup Pairs, MaxDepth)

\* gemini.rs:204: find_image_data(&json) returns.
ExtractReturns ==
    /\ fx.at = "given"
    /\ fx' = [fx EXCEPT !.at = "returned", !.out = find_image_data(fx.frag)]
    /\ UNCHANGED <<programVars, sp>>

InitExtract ==
    /\ InitProgram
    /\ settings_file = [nano_banana_base_url |-> FALSE, gemini_api_key |-> TRUE]
    /\ sp = Idle
    /\ \E frag \in Fragments : fx = [at |-> "given", frag |-> frag, out |-> None]

NextExtract == ExtractReturns

SpecExtract == InitExtract /\ [][NextExtract]_vars

\* ============================================ guess_image_extension on bytes
\* The byte sequences under study: a signature followed by up to MaxPad more
\* bytes, cut at every length, with one byte changed or none.

Pad == [i \in 1..MaxPad |-> 0]

SignedBytes ==
    {PngMagic \o Pad, JpegMagic \o Pad,
     RiffMagic \o <<36, 0, 0, 0>> \o WebpMagic \o Pad,
     <<71, 73, 70, 56, 57, 97>> \o Pad}

\* s with its p-th byte changed (unchanged for p = 0).
Changed(s, p) == IF p = 0 THEN s ELSE [s EXCEPT ![p] = (@ + 1) % 256]

ByteInputs ==
    UNION {{Changed(SubSeq(b, 1, k), p) : p \in 0..k} : <<b, k>> \in
              {<<b0, k0>> \in SignedBytes \X (0..(12 + MaxPad)) : k0 <= Len(b0)}}

\* comic.rs:330: guess_image_extension(&bytes) returns.
GuessReturns ==
    /\ fx.at = "bytes_given"
    /\ fx' = [fx EXCEPT !.at = "guessed", !.out = Some(guess_image_extension(fx.frag))]
    /\ UNCHANGED <<programVars, sp>>

InitGuess ==
    /\ InitProgram
    /\ settings_file = [nano_banana_base_url |-> FALSE, gemini_api_key |-> TRUE]
    /\ sp = Idle
    /\ \E bytes \in ByteInputs : fx = [at |-> "bytes_given", frag |-> bytes, out |-> None]

NextGuess == GuessReturns

SpecGuess == InitGuess /\ [][NextGuess]_vars

\* ================== generate_streaming on a body cut into transport chunks
\* The body is UTF-8 text: the bytes of its characters, with "nl" the newline,
\* "a" an ASCII character and "E1", "E2" the two bytes of one character
\* ("e2").  A line stands for the JSON object whose `response` is its text.

\* The UTF-8 bytes of a character.
Utf8Bytes(ch) == IF ch = "e2" THEN <<"E1", "E2">> ELSE <<ch>>

RECURSIVE Utf8Encode(_)
Utf8Encode(chars) ==
    IF chars = << >> THEN << >> ELSE Utf8Bytes(Head(chars)) \o Utf8Encode(Tail(chars))

\* The texts of the bodies.
ChunkedTexts == UNION {[1..n -> {"a", "e2", "nl"}] : n \in 0..MaxBodyChars}

\* String::from_utf8_lossy: a lead byte with its continuation is one character,
\* every other non-ASCII byte becomes U+FFFD.
RECURSIVE Utf8Lossy(_)
Utf8Lossy(bytes) ==
    IF bytes = << >> THEN << >>
    ELSE IF Head(bytes) = "E1" /\ Len(bytes) >= 2 /\ bytes[2] = "E2"
    THEN <<"e2">> \o Utf8Lossy(Tail(Tail(bytes)))
    ELSE IF Head(bytes) \in {"E1", "E2"} THEN <<"FFFD">> \o Utf8Lossy(Tail(bytes))
    ELSE <<Head(bytes)>> \o Utf8Lossy(Tail(bytes))

\* ollama.rs:185-205: the complete lines of buf that are not blank, and the
\* unfinished tail that is kept.
RECURSIVE SplitLines(_, _, _)
SplitLines(buf, line, lines) ==
    IF buf = << >> THEN [lines |-> lines, rest |-> line]
    ELSE IF Head(buf) = "nl"
    THEN SplitLines(Tail(buf), << >>, IF line = << >> THEN lines ELSE Append(lines, line))
    ELSE SplitLines(Tail(buf), Append(line, Head(buf)), lines)

\* The call on the bytes of text, which the transport cuts after the bytes
\* numbered in cuts.
ChunkedCall(text, cuts) ==
    [at |-> "text_stream", whole |-> Utf8Encode(text), cuts |-> cuts, pos |-> 0,
     buf |-> << >>, delivered |-> << >>, out |-> ErrOf(<<"pending">>)]

\* ollama.rs:178-205: stream.next() returned the next chunk.
ChunkRead ==
    /\ sp.at = "text_stream"
    /\ sp.pos < Len(sp.whole)
    /\ LET later == {c \in sp.cuts : c > sp.pos}
           end == IF later = {} THEN Len(sp.whole)
                  ELSE CHOOSE c \in later : \A d \in later : c <= d
           chunk == Utf8Lossy(SubSeq(sp.whole, sp.pos + 1, end))
           split == SplitLines(sp.buf \o chunk, << >>, << >>)
       IN sp' = [sp EXCEPT !.pos = end, !.buf = split.rest,
                           !.delivered = @ \o split.lines]
    /\ UNCHANGED <<programVars, fx>>

\* ollama.rs:207-219: the stream closed; the buffered last line is handled.
ChunksClosed ==
    /\ sp.at = "text_stream"
    /\ sp.pos = Len(sp.whole)
    /\ sp' = [sp EXCEPT !.at = "returned",
                        !.delivered = IF sp.buf = << >> THEN @ ELSE Append(@, sp.buf),
                        !.out = Ok(Payload("unit", << >>))]
    /\ UNCHANGED <<programVars, fx>>

InitChunks ==
    /\ InitProgram
    /\ settings_file = [nano_banana_base_url |-> FALSE, gemini_api_key |-> TRUE]
    /\ fx = Idle
    /\ \E text \in ChunkedTexts :
          \E cuts \in SUBSET (1..(Len(Utf8Encode(text)) - 1)) :
             sp = ChunkedCall(text, cuts)

NextChunks == ChunkRead \/ ChunksClosed

SpecChunks == InitChunks /\ [][NextChunks]_vars

\* A call of either streaming producer on a given response.
SpecProducers == (InitStream \/ InitText) /\ [][NextStream \/ NextText]_vars

\* ---------------------------------------------- the wait loop on its own

\* The sleeps that elapse until the heartbeat reaches its cap.
TicksToCap == (TickCap + TickStep - 1) \div TickStep

\* comic.rs:252-255: the loop is entered with tick_completed = 0 and the request
\* pending; writes are the (completed, total) of the statuses it has inserted.
WaitLoop ==
    [at |-> "nano_wait", tick_completed |-> 0, elapsed |-> 0, writes |-> << >>,
     res |-> None]

\* comic.rs:260-274: the 800 ms sleep elapsed before the request completed.
WaitSleepElapsed ==
    /\ fx.at = "nano_wait"
    /\ fx.elapsed < TicksToCap + MaxTicksPastCap
    /\ fx' = IF TickDue(fx.tick_completed)
             THEN [fx EXCEPT !.elapsed = @ + 1,
                             !.tick_completed = NextTick(@),
                             !.writes = Append(@, [completed |-> NextTick(fx.tick_completed),
                                                   total |-> HeartbeatTotal])]
             ELSE [fx EXCEPT !.elapsed = @ + 1]
    /\ UNCHANGED <<programVars, sp>>

\* comic.rs:259: `r = &mut req_fut => { break r; }`.
WaitRequestDone ==
    /\ fx.at = "nano_wait"
    /\ \E r \in {"ok"} \cup NanoErrors : fx' = [fx EXCEPT !.at = "taken", !.res = Some(r)]
    /\ UNCHANGED <<programVars, sp>>

InitWait ==
    /\ InitProgram
    /\ settings_file = [nano_banana_base_url |-> TRUE, gemini_api_key |-> TRUE]
    /\ sp = Idle
    /\ fx = WaitLoop

NextWait == WaitSleepElapsed \/ WaitRequestDone

SpecWait == InitWait /\ [][NextWait]_vars

\* ============================================================ properties

Terminal(st) == st.stage \in {"Failed", "Done"}

Recorded(j) == j \in DOMAIN comic_status

\* C1: every write to a job's registry entry keeps the stage at the same or a
\* later position of Queued < Parsing < Storyboarding < Prompting < Rendering <
\* Saving < Done (a poller reads the entry atomically, so what it reads is a
\* subsequence of what is written), every Rendering record has
\* completed <= total, and a Rendering record that replaces a Rendering
\* record does not lower completed.
C1_StagesMonotonic ==
    [][\A j \in JobIds :
         /\ Recorded(j) => Recorded(j)'
         /\ (Recorded(j)' /\ comic_status'[j].stage = "Rendering")
               => comic_status'[j].completed <= comic_status'[j].total
         /\ (Recorded(j) /\ comic_status[j].stage # "Failed"
                         /\ comic_status'[j].stage # "Failed")
               => /\ StageRank(comic_status[j].stage) <= StageRank(comic_status'[j].stage)
                  /\ (comic_status[j].stage = "Rendering"
                        /\ comic_status'[j].stage = "Rendering")
                       => comic_status[j].completed <= comic_status'[j].completed]_vars

\* The cloud progress after a fallback that followed heartbeats: the last
\* heartbeat is on record and 100/100 is about to replace it.
C1_Witness ==
    \E j \in JobIds :
        /\ pc[j] = "w_done_progress"
        /\ calls[j][1].p = "nano"
        /\ last_tick[j] = TickStep * MaxTicks
        /\ comic_status[j].stage = "Rendering"
        /\ comic_status[j].completed = TickStep * MaxTicks

\* C2: a registry entry whose stage is Failed or Done is never written again.
C2_TerminalWriteOnce ==
    [][\A j \in JobIds :
         (Recorded(j) /\ Terminal(comic_status[j]))
            => /\ Recorded(j)'
               /\ comic_status'[j] = comic_status[j]]_vars

\* A task that published "image decode failed" and ended, polled afterwards.
C2_Witness ==
    \E j \in JobIds :
        /\ pc[j] = "finished"
        /\ comic_status[j].stage = "Failed"
        /\ comic_status[j].error[1] = "image decode failed"
        /\ reply = Reply("get_comic_job_status", j, "Ok")

\* C3: a task that was not cancelled never ends by a panic while the last
\* status written for its job is neither Failed nor Done.
C3_NoAbnormalEnd ==
    \A j \in JobIds :
        (pc[j] = "panicked" /\ ~aborted[j]) => Terminal(comic_status[j])

\* C4 as stated: from the moment cancel_job has returned for a job whose handle
\* was in the table, the job's registry entry never changes.
C4_NoWriteAfterCancel ==
    [][\A j \in JobIds : aborted[j] => comic_status'[j] = comic_status[j]]_vars

\* C4 amended: a task marked by cancel_job makes no status write once it is
\* suspended at an await point (or has ended), and it never leaves that point.
C4_NoWriteAfterSuspension ==
    [][\A j \in JobIds :
         (aborted[j] /\ pc[j] \in AwaitPoints)
            => /\ comic_status'[j] = comic_status[j]
               /\ pc'[j] = pc[j]]_vars

\* A cancelled task that stays suspended in the rendering stage while the
\* remote renderer's request is in flight.
C4_Witness ==
    \E j \in JobIds :
        /\ aborted[j]
        /\ pc[j] = "nano_wait"
        /\ comic_status[j].stage = "Rendering"
        /\ reply = Reply("cancel_job", j, "Ok")

\* C5: a cancel_job for an id that is not in the handle table returns Ok and
\* changes neither the handle table nor the status registry.
C5_CancelUnknownIsNoOp ==
    [][(reply' # reply /\ reply'.cmd = "cancel_job" /\ reply'.id \notin jobs)
          => /\ reply'.result = "Ok"
             /\ jobs' = jobs
             /\ comic_status' = comic_status]_vars

\* An unknown id was cancelled while a job was running.
C5_Witness ==
    /\ reply = Reply("cancel_job", UnknownId, "Ok")
    /\ \E j \in JobIds : j \in jobs /\ pc[j] = "text_stream"

\* C6: the Queued record is in the registry before the task is spawned, the
\* entry exists from then on, and a get_comic_job_status made after the
\* submission returned does not answer 'job not found'.
C6_QueuedBeforeReturn ==
    \A j \in JobIds :
        /\ sub[j] = "queued"
              => /\ pc[j] = "none"
                 /\ StatusOf(j) = Some(ComicJobStatus(j, "Queued", 0, 0, << >>, None, None))
        /\ sub[j] \in {"spawned", "returned"} => Recorded(j)
        /\ (sub[j] = "returned" /\ reply.cmd = "get_comic_job_status" /\ reply.id = j)
              => reply.result = "Ok"

\* A poll right after the submission returned, before the task's first poll.
C6_Witness ==
    \E j \in JobIds :
        /\ sub[j] = "returned"
        /\ pc[j] = "spawned"
        /\ reply = Reply("get_comic_job_status", j, "Ok")
        /\ comic_status[j].stage = "Queued"

\* The position of a provider in the chain; the stricter retry is a second
\* request to the non-streaming endpoint.
ProviderRank(p) ==
    CASE p = "nano" -> 0
      [] p = "stream" -> 1
      [] p = "once" -> 2
      [] p = "retry" -> 3

\* C7: the requests of a job follow the order remote renderer, streaming
\* endpoint, non-streaming endpoint; the remote renderer is called only when
\* the settings configure it and is the first call when they do; every call
\* before the last one returned an error, so no call follows one that
\* returned image data.
C7_ProviderOrder ==
    \A j \in JobIds :
        LET c == calls[j] IN
        /\ \A i \in 1..Len(c) : \A k \in 1..Len(c) :
              i < k => ProviderRank(c[i].p) < ProviderRank(c[k].p)
        /\ \A i \in 1..(Len(c) - 1) : c[i].r \notin {"ok", "pending"}
        /\ \A i \in 1..Len(c) :
              /\ c[i].p = "nano" => settings[j][1].nano_banana_base_url
              /\ c[i].p = "stream"
                    => (i = 1 <=> ~settings[j][1].nano_banana_base_url)
              /\ c[i].p = "once" => (i > 1 /\ c[i - 1].p = "stream")
              /\ c[i].p = "retry" => (i > 1 /\ c[i - 1].p = "once")

\* The whole chain was walked and the non-streaming endpoint returned an image.
C7_Witness ==
    \E j \in JobIds :
        /\ Len(calls[j]) = 3
        /\ calls[j][1].p = "nano" /\ calls[j][2].p = "stream"
        /\ calls[j][3].p = "once" /\ calls[j][3].r = "ok"
        /\ pc[j] = "file_write"

\* The chain of C8: the remote renderer unconfigured, the stream closed
\* without an image payload, the non-streaming response held an image.
C8_Case(j) ==
    /\ settings[j] # None
    /\ ~settings[j][1].nano_banana_base_url
    /\ Len(calls[j]) = 2
    /\ calls[j][1].p = "stream"
    /\ calls[j][1].r = "gemini stream: no image data received"
    /\ calls[j][2].p = "once"
    /\ calls[j][2].img

Contains(m, e) == \E i \in 1..Len(m) : m[i] = e

\* C9: when the chain failed, the recorded error names the cause of every
\* failed attempt: the remote renderer's, the streaming endpoint's and the
\* non-streaming endpoint's (its last request).
C9_ErrorNamesEveryCause ==
    \A j \in JobIds :
        (Recorded(j) /\ comic_status[j].stage = "Failed"
                     /\ comic_status[j].error[1] = "image generation failed")
           => \A i \in 1..Len(calls[j]) :
                 (calls[j][i].p \in {"nano", "stream"} \/ i = Len(calls[j]))
                    => Contains(comic_status[j].error, calls[j][i].r)

\* C10: no request follows a response that carried the safety flag.
C10_SafetyIsTerminal ==
    \A j \in JobIds :
        \A i \in 1..(Len(calls[j]) - 1) : ~calls[j][i].safety

\* C11: one call of the non-streaming endpoint sends at most two requests; the
\* stricter retry is sent after a first response that has a success status,
\* holds no image and is not safety-blocked, and only after such a response;
\* every such response is followed by the retry; nothing follows the retry.
C11_RetryExactlyOnNoImage ==
    \A j \in JobIds :
        LET c == calls[j] IN
        /\ Cardinality({i \in 1..Len(c) : c[i].p \in {"once", "retry"}}) <= 2
        /\ \A i \in 1..Len(c) :
              /\ c[i].p = "retry"
                    => /\ i = Len(c)
                       /\ i > 1 /\ c[i - 1].p = "once" /\ c[i - 1].r = "no image"
                       /\ ~c[i - 1].img /\ ~c[i - 1].safety
              /\ (c[i].p = "once" /\ c[i].r \in {"no image", "panicked: no image"})
                    => (i < Len(c) /\ c[i + 1].p = "retry")

\* The lines of a body in arrival order, the unterminated last one included.
AllLines(c) == IF c.tail = None THEN c.body ELSE Append(c.body, c.tail[1])

CarriesInline(ln) == ln.json /\ ln.inline # None

CarriesUri(ln) == ln.json /\ ln.uri # None

\* The inline payload of the last line of lines that carries one.
LastInline(lines) ==
    LET I == {i \in 1..Len(lines) : CarriesInline(lines[i])}
    IN IF I = {} THEN None
       ELSE Some(lines[CHOOSE i \in I : \A k \in I : k <= i].inline[1])

\* The URI of the last line of lines that carries one.
LastUri(lines) ==
    LET I == {i \in 1..Len(lines) : CarriesUri(lines[i])}
    IN IF I = {} THEN None
       ELSE lines[CHOOSE i \in I : \A k \in I : k <= i].uri

\* The call read its stream to the end and returned.
ReturnedAfterClose ==
    sp.at = "returned" /\ sp.out # Err("gemini stream error")

\* C12: when the stream of a body closes, the producer returns the inline
\* payload of the last line of the body that carries one.
C12_LastInlineWins ==
    (ReturnedAfterClose /\ LastInline(AllLines(sp)) # None)
       => sp.out = Ok(Payload("stream", LastInline(AllLines(sp))[1]))

\* C13: when no line of the body carries inline data, the URI fetched after
\* the stream closed is the one of the last line that carries a URI.
C13_LastUriWins ==
    (sp.at = "uri_fetch" /\ LastInline(AllLines(sp)) = None)
       => sp.latest_http_uri = LastUri(sp.body)

\* C16: after the stream closed the producer returns the captured inline
\* payload if a handled line carried one, whether or not a line carried a URI;
\* otherwise, if a handled line carried a URI, the base64 of the fetched bytes
\* (or the fetch's error); otherwise 'no image data received'; it returns Ok
\* in the first two cases only.
C16_ResultAfterClose ==
    ReturnedAfterClose
       => IF LastInline(sp.body) # None
          THEN sp.out.ok /\ sp.out.v.from = "stream"
               /\ \E i \in 1..Len(sp.body) :
                     CarriesInline(sp.body[i]) /\ sp.out.v.data = sp.body[i].inline[1]
          ELSE IF LastUri(sp.body) # None
          THEN sp.out = Ok(Payload("stream", FetchedB64))
               \/ \E e \in StreamFetchErrors : sp.out = Err(e)
          ELSE sp.out = Err("gemini stream: no image data received")

\* A body where a URI came before and after the inline payload that is returned.
C16_Witness ==
    /\ ReturnedAfterClose
    /\ Len(sp.body) = 3
    /\ CarriesUri(sp.body[1]) /\ ~CarriesInline(sp.body[1])
    /\ CarriesInline(sp.body[2])
    /\ CarriesUri(sp.body[3]) /\ ~CarriesInline(sp.body[3])
    /\ sp.out = Ok(Payload("stream", sp.body[2].inline[1]))

RECURSIVE HasKnownField(_)
\* Some object of the fragment holds a field of the kinds (a)-(e).
HasKnownField(v) ==
    \/ IsObj(v) /\ DirectFields(v) # None
    \/ \E i \in 1..Len(Children(v)) : HasKnownField(Children(v)[i])

RECURSIVE HasDataImageString(_)
\* Some string value of the fragment starts with data:image/.
HasDataImageString(v) ==
    \/ IsStr(v) /\ StartsWith(v.str, DataImagePrefix)
    \/ \E i \in 1..Len(Children(v)) : HasDataImageString(Children(v)[i])

\* C14: the generic string scan (f) supplies the extractor's result only when
\* no field of the kinds (a)-(e) occurs anywhere in the fragment.
C14_ScanOnlyWithoutKnownField ==
    (fx.at = "returned" /\ fx.out # None /\ fx.out[1].by = "f")
       => ~HasKnownField(fx.frag)

\* C15: for a fragment without any field of the kinds (a)-(e) that holds, at
\* any depth and whatever its root, a string starting with data:image/, the
\* extractor returns such a string.
C15_NestedDataUriFound ==
    (fx.at = "returned" /\ ~HasKnownField(fx.frag) /\ HasDataImageString(fx.frag))
       => /\ fx.out # None
          /\ StartsWith(fx.out[1].s, DataImagePrefix)

\* C17: the status a get returns (the clone of the registry entry) is, under
\* every interleaving of writes and polls, field for field the value passed to
\* the last insert that returned for that id, and no status exists for an id
\* before its first insert.
C17_GetSeesLastUpsert ==
    \A j \in JobIds : StatusOf(j) = upserted[j]

\* A poll answered between two writes of the text stream: the accumulator
\* already holds the second fragment, the registry still the first write.
C17_Witness ==
    \E j \in JobIds :
        /\ reply = Reply("get_comic_job_status", j, "Ok")
        /\ pc[j] = "on_chunk"
        /\ Len(storyboard_text[j]) = 2
        /\ StatusOf(j) # None
        /\ StatusOf(j)[1].stage = "Prompting"
        /\ StatusOf(j)[1].storyboard_text = Some(SubSeq(storyboard_text[j], 1, 1))

\* The text a status carries, empty when it carries none.
TextOf(st) == IF st.storyboard_text = None THEN << >> ELSE st.storyboard_text[1]

IsPrefix(s, t) == Len(s) <= Len(t) /\ SubSeq(t, 1, Len(s)) = s

\* The step writes a status of job j over an earlier one.
Overwrites(j) == upserted[j] # None /\ upserted'[j] # upserted[j]

\* C18: every status written once Prompting is published (the Prompting
\* writes of the chunk callback and every later write) carries the
\* concatenation, in stream order, of the fragments delivered so far.
C18_TextIsConcatenation ==
    [][\A j \in JobIds :
          (Overwrites(j) /\ upserted[j][1].stage \in {"Prompting", "Rendering", "Saving"})
             => TextOf(upserted'[j][1]) = storyboard_text'[j]]_vars

\* C19: once a write of a job carries text T, every later write of that job
\* carries a text that has T as a prefix, and a write after the Prompting
\* stage carries the text of the write before it.
C19_TextGrowsThenFreezes ==
    [][\A j \in JobIds :
          Overwrites(j)
             => LET old == upserted[j][1]
                    new == upserted'[j][1]
                IN /\ old.storyboard_text # None
                         => /\ new.storyboard_text # None
                            /\ IsPrefix(old.storyboard_text[1], new.storyboard_text[1])
                   /\ old.stage \in {"Rendering", "Saving"}
                         => new.storyboard_text = old.storyboard_text]_vars

ImageExts == {"png", "jpg", "webp"}

\* C20: a status Done carries the path <data_root>/images/<entry_id>/
\* <job_id>-result.<ext> and the complete storyboard text, and it is written
\* over a status Saving that carries the same path and the same text.
C20_DoneCarriesSavedPathAndText ==
    [][\A j \in JobIds :
          (upserted'[j] # None /\ upserted'[j][1].stage = "Done")
             => LET new == upserted'[j][1]
                IN /\ \E ext \in ImageExts :
                         new.result_image_path =
                            Some([dir |-> <<"data_root", "images", entry_id(j)>>,
                                  file |-> <<j, "-result.", ext>>])
                   /\ new.storyboard_text = Some(storyboard_text'[j])
                   /\ StatusOf(j)' = Some(new)
                   /\ Overwrites(j)
                         => /\ upserted[j][1].stage = "Saving"
                            /\ upserted[j][1].result_image_path = new.result_image_path
                            /\ upserted[j][1].storyboard_text = new.storyboard_text]_vars

\* A job that is Done with a text of two fragments.
C20_Witness ==
    \E j \in JobIds :
        /\ StatusOf(j) # None
        /\ StatusOf(j)[1].stage = "Done"
        /\ StatusOf(j)[1].result_image_path # None
        /\ StatusOf(j)[1].storyboard_text = Some(storyboard_text[j])
        /\ Len(storyboard_text[j]) = 2

\* C21: whenever a job's status is Saving or Done, the image bytes are in the
\* file that result_image_path names.
C21_SavedMeansWritten ==
    \A j \in JobIds :
        (Recorded(j) /\ comic_status[j].stage \in {"Saving", "Done"})
           => comic_status[j].result_image_path[1] \in files

\* The last status written for j is the Failed of the given stage.
FailedWith(j, what) ==
    /\ upserted[j] # None
    /\ upserted[j][1].stage = "Failed"
    /\ upserted[j][1].error[1] = what

\* C22: once the entry lookup has failed, the next status write of the job is
\* Failed (load entry failed) with no text and no path, it is the last write,
\* and no text or image provider is called.
C22_EntryFailureEndsJob ==
    [][\A j \in JobIds :
          /\ (pc[j] = "w_fail_entry" /\ upserted'[j] # upserted[j])
                => /\ upserted'[j][1].stage = "Failed"
                   /\ upserted'[j][1].error[1] = "load entry failed"
                   /\ upserted'[j][1].error[2] \in EntryErrors
                   /\ upserted'[j][1].storyboard_text = None
                   /\ upserted'[j][1].result_image_path = None
          /\ (pc[j] = "w_fail_entry" \/ FailedWith(j, "load entry failed"))
                => /\ settings'[j] = None
                   /\ storyboard_text'[j] = << >>
                   /\ calls'[j] = << >>
          /\ FailedWith(j, "load entry failed")
                => upserted'[j] = upserted[j] /\ pc'[j] = "finished"]_vars

C22_Witness ==
    \E j \in JobIds :
        /\ FailedWith(j, "load entry failed")
        /\ comic_status[j] = upserted[j][1]
        /\ pc[j] = "finished"
        /\ reply = Reply("get_comic_job_status", j, "Ok")

\* C23: once the text stream has failed, before or after chunks, the next
\* status write of the job is Failed (ollama prompting failed) and it is the
\* last one; the text request is not sent again and no image provider is
\* called.
C23_TextFailureEndsJob ==
    [][\A j \in JobIds :
          /\ (pc[j] = "w_fail_text" /\ upserted'[j] # upserted[j])
                => /\ upserted'[j][1].stage = "Failed"
                   /\ upserted'[j][1].error[1] = "ollama prompting failed"
                   /\ upserted'[j][1].error[2] \in TextSendErrors \cup {"stream error"}
                   /\ upserted'[j][1].result_image_path = None
          /\ pc[j] = "w_fail_text" => pc'[j] \in {"w_fail_text", "finished"}
          /\ (pc[j] = "w_fail_text" \/ FailedWith(j, "ollama prompting failed"))
                => calls'[j] = << >> /\ nb_res'[j] = None
          /\ FailedWith(j, "ollama prompting failed")
                => upserted'[j] = upserted[j] /\ pc'[j] = "finished"]_vars

\* A stream that failed after it had delivered a fragment.
C23_Witness ==
    \E j \in JobIds :
        /\ FailedWith(j, "ollama prompting failed")
        /\ upserted[j][1].error[2] = "stream error"
        /\ Len(storyboard_text[j]) >= 1
        /\ comic_status[j] = upserted[j][1]
        /\ pc[j] = "finished"

\* The chain returned to job j a payload that is not valid base64.
UndecodablePayload(j) ==
    /\ nb_res[j] # None
    /\ ~IsStandardB64(AfterFirstComma(nb_res[j][1].data))
    /\ calls[j][Len(calls[j])].r = "ok"

\* C24: when the payload the chain returned is not valid base64, the job's next
\* and last write is Failed (image decode failed) with the complete storyboard
\* text and no path; no file is written and no provider is called after the
\* one that returned the payload.
C24_DecodeFailureEndsJob ==
    [][\A j \in JobIds :
          UndecodablePayload(j)
             => /\ pc[j] \in {"w_fail_decode", "finished"}
                /\ pc[j] = "finished" <=> FailedWith(j, "image decode failed")
                /\ upserted'[j] # upserted[j]
                      => /\ pc[j] = "w_fail_decode"
                         /\ upserted'[j][1].stage = "Failed"
                         /\ upserted'[j][1].error[1] = "image decode failed"
                         /\ upserted'[j][1].storyboard_text = Some(storyboard_text[j])
                         /\ upserted'[j][1].result_image_path = None
                /\ files' = files /\ \A f \in files : f.dir # images_dir(j)
                /\ calls'[j] = calls[j] /\ nb_res'[j] = nb_res[j]
                /\ nb_res[j][1].from = "nano" => Len(calls[j]) = 1]_vars

\* The remote renderer returned a payload that does not decode: the job is
\* Failed and the renderer's request is the only one made.
C24_Witness ==
    \E j \in JobIds :
        /\ UndecodablePayload(j)
        /\ nb_res[j][1].from = "nano"
        /\ FailedWith(j, "image decode failed")
        /\ comic_status[j].storyboard_text = Some(storyboard_text[j])
        /\ Len(storyboard_text[j]) = 2
        /\ Len(calls[j]) = 1

\* C25: under fair scheduling, every submitted job that is not cancelled
\* eventually records Done or Failed.
C25_EventuallyTerminal ==
    \A j \in JobIds :
        (sub[j] = "returned")
           ~> (aborted[j] \/ (Recorded(j) /\ Terminal(comic_status[j])))

\* C27: when the text endpoint answers with a status outside 200..299, the
\* call returns an error without having called the chunk callback; for 404 and
\* 502 the message is the 'not reachable' one, for the others it names the
\* status, and neither is the message of a transport error.
C27_HttpErrorIsDistinct ==
    (sp.at = "returned" /\ sp.send.answered /\ ~(sp.send.status \in 200..299))
       => /\ ~sp.out.ok
          /\ sp.chunks = << >>
          /\ sp.out.v.data # <<"ollama request failed">>
          /\ sp.out.v.data # <<"stream error">>
          /\ sp.send.status \in {404, 502}
                => sp.out.v.data =
                      <<"Ollama server not reachable. Is it running on port 11434?">>
          /\ sp.send.status \notin {404, 502}
                => sp.out.v.data = <<"ollama error: HTTP", sp.send.status>>

\* A 502 answered with the 'not reachable' message although the body that
\* came with it holds a response fragment.
C27_Witness ==
    /\ sp.at = "returned"
    /\ sp.send.status = 502
    /\ Len(sp.body) >= 1
    /\ sp.body[1].response = Some("a")
    /\ sp.chunks = << >>
    /\ sp.out = ErrOf(<<"Ollama server not reachable. Is it running on port 11434?">>)

\* C28: the values the streaming image producer passes to its callback in one
\* call never decrease, their total is 100, every value passed while the
\* stream is read is below 100, and 100 is passed exactly when the call
\* returns Ok.
C28_ProgressSequence ==
    sp.at \in {"img_stream", "uri_fetch", "returned", "panicked"}
       => LET r == sp.reports
          IN /\ \A i \in 1..Len(r) : r[i].total = 100
             /\ \A i \in 1..Len(r) : \A k \in i..Len(r) : r[i].completed <= r[k].completed
             /\ sp.at \in {"img_stream", "panicked"}
                   => \A i \in 1..Len(r) : r[i].completed < 100
             /\ (\E i \in 1..Len(r) : r[i].completed = 100)
                   <=> (sp.at = "returned" /\ sp.out.ok)
             /\ \A i \in 1..(Len(r) - 1) : r[i].completed < 100

\* A call that read three lines near the cap, fetched its image and returned
\* Ok: its last values are 97, 99, 99 and 100.
C28_Witness ==
    /\ sp.at = "returned"
    /\ sp.out = Ok(Payload("stream", FetchedB64))
    /\ sp.lead = 47
    /\ sp.pos = 3
    /\ LET r == sp.reports
           n == Len(sp.reports)
       IN /\ n >= 4
          /\ <<r[n - 3].completed, r[n - 2].completed, r[n - 1].completed,
               r[n].completed>> = <<97, 99, 99, 100>>

\* b starts with the bytes of sig.
HasSignature(b, sig) == Len(b) >= Len(sig) /\ \A i \in 1..Len(sig) : b[i] = sig[i]

\* C30: guess_image_extension returns "png" for bytes that start with
\* 89 50 4E 47 0D 0A 1A 0A, "jpg" for bytes that start with FF D8 FF, "webp"
\* when bytes 0..4 are RIFF and bytes 8..12 are WEBP, and "png" for every
\* other input, the empty and the too short ones included.
C30_ExtensionBySignature ==
    fx.at = "guessed"
       => LET b == fx.frag
              png == HasSignature(b, <<137, 80, 78, 71, 13, 10, 26, 10>>)
              jpg == HasSignature(b, <<255, 216, 255>>)
              webp == /\ HasSignature(b, <<82, 73, 70, 70>>)
                      /\ Len(b) >= 12
                      /\ <<b[9], b[10], b[11], b[12]>> = <<87, 69, 66, 80>>
          IN /\ png => fx.out = Some("png")
             /\ jpg => fx.out = Some("jpg")
             /\ webp => fx.out = Some("webp")
             /\ ~(png \/ jpg \/ webp) => fx.out = Some("png")

\* A RIFF container whose form type is not WEBP is given the default.
C30_Witness ==
    /\ fx.at = "guessed"
    /\ Len(fx.frag) >= 12
    /\ HasSignature(fx.frag, <<82, 73, 70, 70>>)
    /\ fx.frag[12] # 80
    /\ fx.out = Some("png")

\* The task of job j has published a stage and has not ended.
Running(j) ==
    /\ pc[j] \notin {"none", "finished", "panicked"}
    /\ Recorded(j)
    /\ comic_status[j].stage \notin {"Queued", "Done", "Failed"}

\* The settings the later stages of job j work with if the file stays as it is.
WillUse(j) == IF settings[j] # None THEN settings[j][1] ELSE settings_file

PartOf(k) == <<StatusOf(k), k \in jobs, aborted[k], pc[k], sub[k]>>

\* C26: with two jobs in flight, every status stored under key k has
\* job_id = k and the entry_id and style of k's submission, a step of the
\* submission or of the task of one job leaves the status, the handle and the
\* task of the other job as they were, and a cancel of one job leaves the
\* status, the handle and the task of the other job as they were: no step
\* changes what is held for two jobs.
C26_JobsAreIndependent ==
    [][/\ \A k \in DOMAIN comic_status' :
             /\ comic_status'[k].job_id = k
             /\ comic_status'[k].entry_id = entry_id(k)
             /\ comic_status'[k].style = style(k)
       /\ \A j \in TwoJobs : \A k \in TwoJobs \ {j} :
             PartOf(j)' # PartOf(j) => PartOf(k)' = PartOf(k)]_vars

\* The second job was cancelled while its task and the first job's task were
\* running; the first job has its handle and goes on to Rendering.
C26_Witness ==
    /\ aborted[2] /\ ~aborted[1]
    /\ 1 \in jobs /\ 2 \notin jobs
    /\ Recorded(1) /\ comic_status[1].stage = "Rendering" /\ comic_status[1].completed > 0
    /\ Recorded(2) /\ comic_status[2].stage = "Parsing"

\* The callback of the cloud call qualifies completed against the last
\* published tick lt.
Qualifies(completed, lt) == completed % 5 = 0 /\ completed > lt

\* The Rendering status the callback of job j publishes for completed.
RenderingAt(j, completed) ==
    Some(ComicJobStatus(j, "Rendering", completed, 100, << >>, None,
                        Some(storyboard_text[j])))

\* C31: while the cloud model renders, the callback called with (completed,
\* total) writes a Rendering status exactly when completed is a multiple of 5
\* and greater than the last published tick; every other callback writes
\* nothing, and a Rendering status written in that phase carries a multiple
\* of 5 greater than the completed value it replaces.
C31_ThrottledProgress ==
    [][\A j \in JobIds :
          /\ (pc[j] \in {"img_send", "img_stream"}
                /\ pc'[j] \in {"img_stream", "w_progress"}
                /\ progress'[j] # progress[j])
                => /\ pc'[j] = "w_progress" <=> Qualifies(progress'[j], last_tick[j])
                   /\ StatusOf(j)' = StatusOf(j)
          /\ (pc[j] = "w_progress" /\ pc'[j] # pc[j])
                => /\ Qualifies(progress[j], last_tick[j])
                   /\ StatusOf(j)' = RenderingAt(j, progress[j])
                   /\ last_tick'[j] = progress[j]
          /\ (pc[j] = "w_finalize" /\ pc'[j] # pc[j])
                => IF Qualifies(99, last_tick[j])
                   THEN StatusOf(j)' = RenderingAt(j, 99)
                   ELSE StatusOf(j)' = StatusOf(j)
          /\ (pc[j] = "w_done_progress" /\ pc'[j] # pc[j])
                => IF Qualifies(100, last_tick[j])
                   THEN StatusOf(j)' = RenderingAt(j, 100)
                   ELSE StatusOf(j)' = StatusOf(j)
          /\ (pc[j] \in {"img_send", "img_stream", "w_progress", "w_finalize",
                         "uri_fetch", "w_done_progress"}
                /\ StatusOf(j)' # StatusOf(j))
                => /\ comic_status'[j].stage = "Rendering"
                   /\ comic_status'[j].completed % 5 = 0
                   /\ comic_status'[j].completed > last_tick[j]
                   /\ comic_status[j].stage = "Rendering"
                   /\ comic_status'[j].completed > comic_status[j].completed]_vars

\* After a failure of the remote renderer that followed a heartbeat, the cloud
\* call has published 5 and reads on.
C31_Witness ==
    \E j \in JobIds :
        /\ nano_e[j] # << >>
        /\ pc[j] = "img_stream"
        /\ progress[j] = 5
        /\ last_tick[j] = 5
        /\ StatusOf(j) = RenderingAt(j, 5)

\* C32: while the request to the remote renderer is pending, every elapsed
\* tick publishes Rendering{completed, 100} with completed = 2, 4, ... up to
\* 98 and nothing above it (a tick at the cap writes nothing); the step that
\* takes the request's result writes no heartbeat, is possible at every tick
\* and ends the loop, so no heartbeat follows it.
C32_HeartbeatRamp ==
    [][/\ \A i \in 1..Len(fx'.writes) :
             /\ fx'.writes[i] = [completed |-> 2 * i, total |-> 100]
             /\ fx'.writes[i].completed <= 98
       /\ (fx.at = "nano_wait" /\ fx'.at = "nano_wait")
             => /\ fx'.elapsed = fx.elapsed + 1
                /\ Len(fx'.writes) = (IF fx.elapsed < 49 THEN fx.elapsed + 1 ELSE 49)
       /\ fx'.at = "taken" => (fx.at = "nano_wait" /\ fx'.writes = fx.writes)
       /\ fx.at = "taken" => fx' = fx]_vars

\* The request completed after the heartbeat had reached 98 and a further
\* tick had elapsed.
C32_Witness ==
    /\ fx.at = "taken"
    /\ fx.elapsed > 49
    /\ Len(fx.writes) = 49
    /\ fx.writes[49].completed = 98

\* The call under study is one of the image producer / of the text producer.
IsStreamCall == "latest_b64" \in DOMAIN sp
IsTextCall == "chunks" \in DOMAIN sp

\* lines without those that are not valid JSON.
JsonLines(lines) == SelectSeq(lines, LAMBDA ln : ln.json)

\* The URI of the first line of lines that carries one.
FirstUri(lines) ==
    LET I == {i \in 1..Len(lines) : CarriesUri(lines[i])}
    IN IF I = {} THEN None
       ELSE lines[CHOOSE i \in I : \A k \in I : i <= k].uri

\* The non-empty response strings of lines, in order.
Responses(lines) ==
    LET S == SelectSeq(lines, LAMBDA ln : ln.response # None /\ ln.response[1] # "")
    IN [i \in 1..Len(S) |-> S[i].response[1]]

\* C33: in both streaming producers a line that is not valid JSON is skipped:
\* reading it changes neither the captured candidates nor the delivered text
\* nor what decides the handling of later lines, it never ends the call, and
\* what the call does when its stream closes is that of the body without its
\* malformed lines.
C33_MalformedLineSkipped ==
    [][/\ (IsStreamCall /\ sp.at = "img_stream" /\ sp'.at # "returned"
             /\ sp.pos < Len(sp.body) /\ ~sp.body[sp.pos + 1].json)
             => /\ sp'.at = "img_stream" /\ sp'.pos = sp.pos + 1
                /\ sp'.latest_b64 = sp.latest_b64
                /\ sp'.latest_http_uri = sp.latest_http_uri
                /\ sp'.last_json_debug = sp.last_json_debug
                /\ sp'.out = sp.out
       /\ (IsStreamCall /\ sp.at = "img_stream" /\ sp'.at \in {"returned", "uri_fetch"}
             /\ sp'.out # Err("gemini stream error"))
             => LET J == JsonLines(sp.body)
                IN /\ LastInline(J) # None
                        => sp'.out = Ok(Payload("stream", LastInline(J)[1]))
                   /\ (LastInline(J) = None /\ FirstUri(J) # None)
                        => /\ sp'.at = "uri_fetch"
                           /\ sp.latest_http_uri = FirstUri(J)
                   /\ (LastInline(J) = None /\ FirstUri(J) = None)
                        => sp'.out = Err("gemini stream: no image data received")
       /\ (IsTextCall /\ sp.at = "text_stream" /\ sp'.at # "returned"
             /\ sp.pos < Len(sp.body) /\ ~sp.body[sp.pos + 1].json)
             => /\ sp'.at = "text_stream" /\ sp'.pos = sp.pos + 1
                /\ sp'.chunks = sp.chunks
                /\ sp'.out = sp.out
       /\ (IsTextCall /\ sp.at = "text_stream" /\ sp'.at = "returned"
             /\ sp'.out # ErrOf(<<"stream error">>))
             => /\ sp'.chunks = Responses(JsonLines(AllLines(sp)))
                /\ sp'.out = Ok(Payload("unit", << >>))]_vars

\* The image producer returned the payload of a line that was followed by a
\* line that is not JSON, after a first line that named a URI.
C33_Witness ==
    /\ IsStreamCall
    /\ sp.at = "returned"
    /\ Len(sp.body) = 3
    /\ CarriesUri(sp.body[1]) /\ CarriesInline(sp.body[2]) /\ ~sp.body[3].json
    /\ sp.out = Ok(Payload("stream", sp.body[2].inline[1]))

\* C34: the image candidate the streaming producer takes from a fragment's
\* dataUris / data_uris list (the value find_image_data returns, which the
\* producer returns as its payload when the stream closes) is never an
\* http(s) URL string.
C34_DataUrisNeverYieldUrl ==
    (fx.at = "returned" /\ fx.out # None /\ fx.out[1].by = "d")
       => ~StartsWith(fx.out[1].s, <<"https://">>)

\* C35: the result of the streaming image producer is that of the same body
\* with a newline after its final line: an image payload carried by a final
\* line without a trailing newline is the one returned when the stream closes.
C35_FinalLineWithoutNewline ==
    (IsStreamCall /\ sp.tail # None /\ sp.at \in {"returned", "uri_fetch"}
       /\ sp.out # Err("gemini stream error"))
       => /\ sp.at = "returned"
          /\ sp.out = Ok(Payload("stream", sp.tail[1].inline[1]))

\* What the text producer delivers for the body received in one chunk.
DeliveredWhole(bytes) ==
    LET split == SplitLines(Utf8Lossy(bytes), << >>, << >>)
    IN IF split.rest = << >> THEN split.lines ELSE Append(split.lines, split.rest)

\* C36: the sequence of text chunks the text producer delivers to its callback
\* depends only on the bytes of the response and not on how the transport
\* cuts them, a cut in the middle of a line and a cut inside a multi-byte
\* character included.
C36_ChunkingIndependent ==
    sp.at = "returned" => sp.delivered = DeliveredWhole(sp.whole)

\* C37: when the GET of the fallback file URI is answered with a non-success
\* HTTP status, the streaming image producer returns an error and not the
\* base64 encoding of the response body.
C37_FetchStatusChecked ==
    (IsStreamCall /\ sp.at = "returned" /\ sp.fetched # None
       /\ ~IsSuccess(sp.fetched[1]))
       => ~sp.out.ok

\* C38: the handle of a job is in the handle table from the return of its
\* submission until the job is cancelled: only a cancel removes it (the end
\* of the task does not), a cancel of an id whose handle is gone (a second
\* cancel) changes nothing but the reply, and a cancel of a job whose status
\* is Done or Failed leaves that status as it is.
C38_HandleUntilCancel ==
    [][\A j \in JobIds :
          /\ sub'[j] = "returned" => (j \in jobs' <=> ~aborted'[j])
          /\ sub'[j] # "returned" => j \notin jobs'
          /\ (j \in jobs /\ j \notin jobs')
                => /\ aborted'[j] /\ ~aborted[j]
                   /\ reply' = Reply("cancel_job", j, "Ok")
                   /\ pc'[j] = pc[j]
          /\ (j \in jobs /\ pc[j] # "finished" /\ pc'[j] = "finished") => j \in jobs'
          /\ (j \notin jobs /\ sub[j] = "returned"
                /\ reply' = Reply("cancel_job", j, "Ok") /\ pc' = pc)
                => /\ jobs' = jobs /\ aborted' = aborted
                   /\ registry' = registry /\ sub' = sub
          /\ (Recorded(j) /\ Terminal(comic_status[j]) /\ aborted'[j] /\ ~aborted[j])
                => /\ j \in jobs /\ j \notin jobs'
                   /\ comic_status' = comic_status]_vars

\* The task has ended with Done and the job was cancelled by the last
\* command: the handle is gone and the status is Done.
C38_Witness ==
    \E j \in JobIds :
        /\ pc[j] = "finished"
        /\ Recorded(j) /\ comic_status[j].stage = "Done"
        /\ aborted[j] /\ j \notin jobs
        /\ reply = Reply("cancel_job", j, "Ok")

\* C39: in every status of every job, in the registry and as passed to the
\* last insert, result_image_path is set exactly when the stage is Saving or
\* Done; a status with stage Queued, Parsing, Storyboarding, Prompting,
\* Rendering or Failed carries no path.
C39_PathIffSavingOrDone ==
    \A j \in JobIds :
        /\ Recorded(j)
              => (comic_status[j].result_image_path # None
                    <=> comic_status[j].stage \in {"Saving", "Done"})
        /\ upserted[j] # None
              => (upserted[j][1].result_image_path # None
                    <=> upserted[j][1].stage \in {"Saving", "Done"})

\* A job published Saving with the path of its result file.
C39_Witness ==
    \E j \in JobIds :
        /\ Recorded(j) /\ comic_status[j].stage = "Saving"
        /\ comic_status[j].result_image_path = ResultPath(j)
        /\ pc[j] = "sleep_save"

====
